---- MODULE Spec2Model ----
(***************************************************************************)
(* The render/cache pipeline of the prerender service                      *)
(* (src/prerender/src): URL extraction and validation (middleware.js),     *)
(* the snapshot cache (cache.js), the page renderer (renderer.js) and the  *)
(* request handler with the service life cycle (index.js).                 *)
(*                                                                         *)
(* JavaScript strings that the code takes apart (URLs, host names) are     *)
(* sequences of one-character strings; the empty sequence stands for       *)
(* null, undefined and "" alike, which the code never tells apart (it      *)
(* only tests them for truthiness).  Strings the code passes on whole      *)
(* (html bodies, header values, error texts) are TLA+ strings.             *)
(*                                                                         *)
(* The browser (puppeteer), the store client (redis) and the web           *)
(* framework (express) are outside the repository: a call to one of them   *)
(* is one step whose outcome is chosen among the outcomes their interface  *)
(* allows, and res.send / res.json deliver what they are given.            *)
(***************************************************************************)
EXTENDS Integers, Sequences, FiniteSets, TLC

\* ------------------------------------------------------------------------
\* Bounds of the model
\* ------------------------------------------------------------------------
\* Number of request slots; each slot carries one request.
NumReqs == 2
MaxElapse == 4
\* The clock advances MaxTicks times at most, TickMs milliseconds each time.
MaxTicks == 2
TickMs == 500
\* CACHE_TTL in seconds (config.cacheTTL; the shipped default is 86400).
cacheTTL == 1

\* ------------------------------------------------------------------------
\* String helpers (JavaScript String methods on character sequences)
\* ------------------------------------------------------------------------
Range(s) == {s[i] : i \in DOMAIN s}

\* String.prototype.indexOf(c): 0-based index of the first c, or -1.
indexOf(s, c) ==
  IF c \in Range(s)
  THEN (CHOOSE i \in 1..Len(s) : s[i] = c /\ \A j \in 1..(i - 1) : s[j] # c) - 1
  ELSE -1

\* String.prototype.substring(a, b) with 0 <= a <= b <= length.
substring(s, a, b) == SubSeq(s, a + 1, b)

\* String.prototype.substring(a).
substringFrom(s, a) == SubSeq(s, a + 1, Len(s))

startsWith(s, p) == Len(p) <= Len(s) /\ SubSeq(s, 1, Len(p)) = p

endsWith(s, p) == Len(p) <= Len(s) /\ SubSeq(s, Len(s) - Len(p) + 1, Len(s)) = p

\* 0-based index of the first character of s that lies in the set cs, or
\* Len(s) when there is none.
firstOf(s, cs) ==
  IF \E i \in 1..Len(s) : s[i] \in cs
  THEN (CHOOSE i \in 1..Len(s) : s[i] \in cs /\ \A j \in 1..(i - 1) : s[j] \notin cs) - 1
  ELSE Len(s)

\* Characters and words the inputs are written with.
HTTP == <<"h", "t", "t", "p">>
HTTPS == <<"h", "t", "t", "p", "s">>
FTP == <<"f", "t", "p">>
COLON == <<":">>
SLASH == <<"/">>
SS == <<"/", "/">>
HostE == <<"e", ".", "c">>
HostSub == <<"s", ".", "e", ".", "c">>
HostNotE == <<"n", "e", ".", "c">>
HostEvil == <<"v", ".", "c">>

Alpha == {"a", "b", "c", "d", "e", "f", "h", "n", "p", "q", "r", "s", "t", "v", "x"}
Digit == {"0", "2", "3", "5", "6"}
HexDigit == Digit \cup {"F"}

\* ------------------------------------------------------------------------
\* decodeURIComponent
\* ------------------------------------------------------------------------
\* The escapes of the model's alphabet: %XX -> character.
PctTable ==
  [p \in {<<"2", "0">>, <<"2", "3">>, <<"2", "5">>, <<"2", "6">>, <<"2", "F">>, <<"3", "F">>} |->
     CASE p = <<"2", "0">> -> " "
       [] p = <<"2", "3">> -> "#"
       [] p = <<"2", "5">> -> "%"
       [] p = <<"2", "6">> -> "&"
       [] p = <<"2", "F">> -> "/"
       [] p = <<"3", "F">> -> "?"]

URIError == "URIError"

\* One left-to-right pass: every %XX becomes its character; a % that does
\* not start an escape leaves the mark URIError in the output.
RECURSIVE PctDecode(_)
PctDecode(s) ==
  IF s = <<>> THEN <<>>
  ELSE IF Head(s) # "%" THEN <<Head(s)>> \o PctDecode(Tail(s))
  ELSE IF Len(s) >= 3 /\ s[2] \in HexDigit /\ s[3] \in HexDigit
       THEN <<PctTable[<<s[2], s[3]>>]>> \o PctDecode(SubSeq(s, 4, Len(s)))
       ELSE <<URIError>>

\* decodeURIComponent(s): [threw, value].
decodeURIComponent(s) ==
  LET d == PctDecode(s)
  IN  IF URIError \in Range(d) THEN [threw |-> TRUE, value |-> <<>>]
      ELSE [threw |-> FALSE, value |-> d]

\* ------------------------------------------------------------------------
\* new URL(s): the WHATWG parser without a base URL, for the inputs of the
\* model (no credentials, no port, no dot segments, lower-case hosts).
\* ------------------------------------------------------------------------
SpecialSchemes == {HTTP, HTTPS, FTP}

\* Code points the host parser refuses.
ForbiddenHost == {" ", "#", "%", "/", ":", "<", ">", "?", "@", "[", "\\", "]", "^", "|"}

\* The path percent-encode set, as far as the model's alphabet goes.
RECURSIVE EncodePath(_)
EncodePath(p) ==
  IF p = <<>> THEN <<>>
  ELSE (CASE Head(p) = " " -> <<"%", "2", "0">>
          [] Head(p) = "\\" -> <<"/">>
          [] OTHER -> <<Head(p)>>) \o EncodePath(Tail(p))

\* The number of leading slashes and backslashes of s.
RECURSIVE LeadingSlashes(_)
LeadingSlashes(s) ==
  IF s # <<>> /\ Head(s) \in {"/", "\\"} THEN 1 + LeadingSlashes(Tail(s)) ELSE 0

NoURL == [ok |-> FALSE]

\* The query and the fragment of the text after the path.
QueryAndHash(afterPath) ==
  [search |-> IF firstOf(afterPath, {"#"}) <= 1 THEN <<>>
              ELSE substring(afterPath, 0, firstOf(afterPath, {"#"})),
   hash |-> IF Len(afterPath) - firstOf(afterPath, {"#"}) <= 1 THEN <<>>
            ELSE substringFrom(afterPath, firstOf(afterPath, {"#"}))]

\* The URL of a special scheme, from its host and what follows the host.
ParseHostAndPath(scheme, host, tail) ==
  IF host = <<>> \/ Range(host) \cap ForbiddenHost # {}
  THEN NoURL
  ELSE [ok |-> TRUE, protocol |-> scheme \o COLON, hostname |-> host,
        pathname |-> IF firstOf(tail, {"?", "#"}) = 0 THEN SLASH
                     ELSE EncodePath(substring(tail, 0, firstOf(tail, {"?", "#"}))),
        search |-> QueryAndHash(substringFrom(tail, firstOf(tail, {"?", "#"}))).search,
        hash |-> QueryAndHash(substringFrom(tail, firstOf(tail, {"?", "#"}))).hash,
        special |-> TRUE]

\* The URL of a special scheme, from the text after the slashes.
ParseAuthority(scheme, afterSlashes) ==
  ParseHostAndPath(scheme,
                   substring(afterSlashes, 0, firstOf(afterSlashes, {"/", "\\", "?", "#"})),
                   substringFrom(afterSlashes, firstOf(afterSlashes, {"/", "\\", "?", "#"})))

\* The URL with the scheme `scheme`, from the text after the colon.
ParseAfterScheme(scheme, rest) ==
  IF scheme \in SpecialSchemes
  THEN ParseAuthority(scheme, substringFrom(rest, LeadingSlashes(rest)))
  ELSE [ok |-> TRUE, protocol |-> scheme \o COLON, hostname |-> <<>>,
        pathname |-> substring(rest, 0, firstOf(rest, {"?", "#"})),
        search |-> QueryAndHash(substringFrom(rest, firstOf(rest, {"?", "#"}))).search,
        hash |-> QueryAndHash(substringFrom(rest, firstOf(rest, {"?", "#"}))).hash,
        special |-> FALSE]

\* The scheme of s is what stands before its first colon.
ValidScheme(scheme) ==
  /\ scheme # <<>>
  /\ scheme[1] \in Alpha
  /\ \A i \in 1..Len(scheme) : scheme[i] \in (Alpha \cup Digit \cup {"+", "-", "."})

\* [ok, protocol (with the colon), hostname, pathname, search (with ?),
\*  hash (with #), special], or NoURL when the parser throws TypeError.
ParseURL(s) ==
  IF indexOf(s, ":") <= 0 \/ ~ValidScheme(substring(s, 0, indexOf(s, ":")))
  THEN NoURL
  ELSE ParseAfterScheme(substring(s, 0, indexOf(s, ":")),
                        substringFrom(s, indexOf(s, ":") + 1))

\* URL.origin of a parsed http/https URL: scheme://host.
origin(u) == u.protocol \o SS \o u.hostname

\* URL.href: the serialisation of a parsed URL.
href(u) ==
  IF u.special THEN origin(u) \o u.pathname \o u.search \o u.hash
  ELSE u.protocol \o u.pathname \o u.search \o u.hash

\* The pathname setter: a no-op on a URL with an opaque path; on a special
\* URL the new value is parsed as a path (it keeps its leading slash).
setPathname(u, p) ==
  IF ~u.special THEN u
  ELSE [u EXCEPT !.pathname = IF p = <<>> \/ Head(p) \notin {"/", "\\"}
                               THEN SLASH \o EncodePath(p) ELSE EncodePath(p)]

\* ------------------------------------------------------------------------
\* State
\* ------------------------------------------------------------------------
VARIABLES
  phase,          \* life cycle of the process (index.js start and signal handlers)
  allowedDomains, \* config.allowedDomains: a sequence of domains, <<>> for null
  client,         \* CacheManager.client is set
  cacheLog,       \* what CacheManager wrote to console.error in the last step
  connected,      \* CacheManager.connected
  browser,        \* PageRenderer.browser is set
  store,          \* the key-value store: key -> [data, expireAt]
  ticks,          \* how often the clock has advanced
  pc,             \* per request slot: the await the request is suspended at
  req,            \* per slot: the HTTP request
  targetUrl,      \* per slot: req.targetUrl
  startTime,      \* per slot: startTime of the handler
  rstate,         \* per slot: the locals of render() that outlive an await
  ret,            \* per slot: what cache.get, render() and cache.set handed back
  resp,           \* per slot: the HTTP response sent
  calls,          \* per slot: how often cache.get, renderer.render, cache.set,
                  \*   page.close and the store itself were called
  openPages       \* the slots whose page is open in the browser

vars == <<phase, allowedDomains, client, cacheLog, connected, browser, store, ticks,
          pc, req, targetUrl, startTime, rstate, ret, resp, calls, openPages>>

\* Date.now(), in milliseconds.
now == ticks * TickMs

Reqs == 1..NumReqs

\* ------------------------------------------------------------------------
\* middleware.js
\* ------------------------------------------------------------------------
RenderPrefix == <<"/", "r", "e", "n", "d", "e", "r", "/">>

\* An extractUrl that looks at the header before the query parameter.
extractUrlHeaderFirst(r) ==
  IF r.header # <<>> THEN r.header
  ELSE IF r.query # <<>> THEN r.query
  ELSE IF startsWith(r.path, RenderPrefix) /\ Len(r.path) > Len(RenderPrefix)
       THEN substringFrom(r.path, Len(RenderPrefix))
  ELSE IF Len(r.path) > 1
          /\ (startsWith(substringFrom(r.path, 1), HTTP \o COLON \o SS)
              \/ startsWith(substringFrom(r.path, 1), HTTPS \o COLON \o SS))
       THEN substringFrom(r.path, 1)
  ELSE <<>>

\* extractUrl(req): the candidate URL, <<>> for null.
extractUrl(r) ==
  IF r.query # <<>> THEN r.query
  ELSE IF r.header # <<>> THEN r.header
  ELSE IF startsWith(r.path, RenderPrefix) /\ Len(r.path) > Len(RenderPrefix)
       THEN substringFrom(r.path, Len(RenderPrefix))
  ELSE IF Len(r.path) > 1
          /\ (startsWith(substringFrom(r.path, 1), HTTP \o COLON \o SS)
              \/ startsWith(substringFrom(r.path, 1), HTTPS \o COLON \o SS))
       THEN substringFrom(r.path, 1)
  ELSE <<>>

ErrNoUrl == [text |-> "No URL provided", arg |-> <<>>]
ErrFormat == [text |-> "Invalid URL format", arg |-> <<>>]
ErrProtocol == [text |-> "Only HTTP and HTTPS protocols are allowed", arg |-> <<>>]
ErrDomain(hostname) ==
  [text |-> "Domain ${hostname} is not in the allowed domains list", arg |-> hostname]

\* An allowlist test that takes every host name ending in an allowed domain.
isAllowedSuffix(domains, hostname) ==
  \E i \in 1..Len(domains) : endsWith(hostname, domains[i])

\* The allowlist test of validateUrl: some domain equals the host name or
\* is a dot-suffix of it.
isAllowed(domains, hostname) ==
  \E i \in 1..Len(domains) :
    hostname = domains[i] \/ endsWith(hostname, <<".">> \o domains[i])

Invalid(error) == [valid |-> FALSE, url |-> <<>>, error |-> error]

\* A validateUrl without its protocol check.
validateNormalizedAnyProtocol(domains, urlObj) ==
  IF Len(domains) > 0 /\ ~isAllowed(domains, urlObj.hostname)
  THEN Invalid(ErrDomain(urlObj.hostname))
  ELSE [valid |-> TRUE, url |-> href(urlObj), error |-> [text |-> "", arg |-> <<>>]]

\* A pathname that is left as the parser made it.
normalizedPathnameWhole(pathname) == pathname

\* A validateUrl that tests the allowlist before the protocol.
validateNormalizedDomainFirst(domains, urlObj) ==
  IF Len(domains) > 0 /\ ~isAllowed(domains, urlObj.hostname)
  THEN Invalid(ErrDomain(urlObj.hostname))
  ELSE IF urlObj.protocol \notin {HTTP \o COLON, HTTPS \o COLON}
  THEN Invalid(ErrProtocol)
  ELSE [valid |-> TRUE, url |-> origin(urlObj) \o urlObj.pathname,
        error |-> [text |-> "", arg |-> <<>>]]

\* validateUrl from the protocol check on: urlObj is the URL without query
\* and fragment, its pathname cut at the first '&'.
validateNormalized(domains, urlObj) ==
  IF urlObj.protocol \notin {HTTP \o COLON, HTTPS \o COLON}
  THEN Invalid(ErrProtocol)
  ELSE IF Len(domains) > 0 /\ ~isAllowed(domains, urlObj.hostname)
  THEN Invalid(ErrDomain(urlObj.hostname))
  ELSE [valid |-> TRUE, url |-> origin(urlObj) \o urlObj.pathname,
        error |-> [text |-> "", arg |-> <<>>]]

\* The pathname up to its first '&'.
normalizedPathname(pathname) ==
  IF "&" \in Range(pathname)
  THEN substring(pathname, 0, indexOf(pathname, "&"))
  ELSE pathname

\* validateUrl from `new URL(decoded)` on: parsed is what the parser made.
validateParsed(domains, parsed) ==
  IF ~parsed.ok THEN Invalid(ErrFormat)
  ELSE validateNormalized(domains,
                          setPathname([parsed EXCEPT !.search = <<>>, !.hash = <<>>],
                                      normalizedPathname(parsed.pathname)))

\* A validateUrl that checks the URL and returns it as it came.
validateDecodedRaw(domains, url, dec) ==
  IF validateParsed(domains, ParseURL(url)).valid
  THEN [valid |-> TRUE, url |-> url, error |-> [text |-> "", arg |-> <<>>]]
  ELSE validateParsed(domains, ParseURL(url))

\* validateUrl from the decoding on: dec is what decodeURIComponent did.
validateDecoded(domains, url, dec) ==
  validateParsed(domains, ParseURL(IF dec.threw THEN url ELSE dec.value))

\* validateUrl(url) under the allowlist `domains`: [valid, url, error].
validateUrl(domains, url) ==
  IF url = <<>> THEN Invalid(ErrNoUrl)
  ELSE validateDecoded(domains, url, decodeURIComponent(url))

UsageHint == "Provide URL via ?url=https://example.com or X-Prerender-URL header"

\* Response headers are functions from header names to values.
NoHeaders == [h \in {} |-> <<>>]
WithHeader(hs, name, value) ==
  [h \in DOMAIN hs \cup {name} |-> IF h = name THEN value ELSE hs[h]]

NoResp == [sent |-> FALSE]

\* A validateRequest that goes on to next() whatever the validation said.
validatedNoReturn(validation) ==
  [next |-> TRUE, targetUrl |-> validation.url,
   headers |-> WithHeader(NoHeaders, "X-Prerender-Normalized-URL", validation.url),
   resp |-> NoResp]

\* A validateRequest that does not set the header.
validatedNoHeader(validation) ==
  IF ~validation.valid
  THEN [next |-> FALSE, targetUrl |-> <<>>, headers |-> NoHeaders,
        resp |-> [sent |-> TRUE, status |-> 400, headers |-> NoHeaders,
                  body |-> [json |-> TRUE, error |-> validation.error,
                            hint |-> UsageHint]]]
  ELSE [next |-> TRUE, targetUrl |-> validation.url, headers |-> NoHeaders,
        resp |-> NoResp]

\* validateRequest once validateUrl has returned `validation`.
validated(validation) ==
  IF ~validation.valid
  THEN [next |-> FALSE, targetUrl |-> <<>>, headers |-> NoHeaders,
        resp |-> [sent |-> TRUE, status |-> 400, headers |-> NoHeaders,
                  body |-> [json |-> TRUE, error |-> validation.error,
                            hint |-> UsageHint]]]
  ELSE [next |-> TRUE, targetUrl |-> validation.url,
        headers |-> WithHeader(NoHeaders, "X-Prerender-Normalized-URL", validation.url),
        resp |-> NoResp]

\* validateRequest(req, res, next): the 400 response, or next() with
\* req.targetUrl and the X-Prerender-Normalized-URL header set.
validateRequest(domains, r) == validated(validateUrl(domains, extractUrl(r)))

\* ------------------------------------------------------------------------
\* cache.js
\* ------------------------------------------------------------------------
\* Code-unit order of the characters a query string is written with.
CharOrder == <<"&", "0", "2", "3", "5", "6", "=", "a", "b", "c", "d", "e", "f",
               "h", "n", "p", "q", "r", "s", "t", "v", "x">>
rank(c) == IF c \in Range(CharOrder) THEN indexOf(CharOrder, c) ELSE Len(CharOrder)

\* a < b in code-unit order.
RECURSIVE strLess(_, _)
strLess(a, b) ==
  IF b = <<>> THEN FALSE
  ELSE IF a = <<>> THEN TRUE
  ELSE IF rank(Head(a)) # rank(Head(b)) THEN rank(Head(a)) < rank(Head(b))
  ELSE strLess(Tail(a), Tail(b))

\* The pieces of s between the separators c, empty pieces dropped.
RECURSIVE split(_, _)
split(s, c) ==
  IF s = <<>> THEN <<>>
  ELSE LET i == IF c \in Range(s) THEN indexOf(s, c) ELSE Len(s)
           piece == substring(s, 0, i)
           more == split(substringFrom(s, i + 1), c)
       IN  IF piece = <<>> THEN more ELSE <<piece>> \o more

paramName(p) == substring(p, 0, IF "=" \in Range(p) THEN indexOf(p, "=") ELSE Len(p))

\* Stable insertion of the parameter p into the sorted list ps.
RECURSIVE insertParam(_, _)
insertParam(ps, p) ==
  IF ps = <<>> THEN <<p>>
  ELSE IF strLess(paramName(p), paramName(Head(ps))) THEN <<p>> \o ps
  ELSE <<Head(ps)>> \o insertParam(Tail(ps), p)

RECURSIVE sortParams(_)
sortParams(ps) ==
  IF ps = <<>> THEN <<>>
  ELSE insertParam(sortParams(SubSeq(ps, 1, Len(ps) - 1)), ps[Len(ps)])

RECURSIVE joinParams(_)
joinParams(ps) ==
  IF ps = <<>> THEN <<>>
  ELSE IF Len(ps) = 1 THEN ps[1]
  ELSE ps[1] \o <<"&">> \o joinParams(Tail(ps))

\* URLSearchParams.sort() followed by the update of the URL's query.
sortedSearch(search) ==
  LET ps == sortParams(split(substringFrom(search, 1), "&"))
  IN  IF ps = <<>> THEN <<>> ELSE <<"?">> \o joinParams(ps)

\* A normalizeUrl that keeps the origin only.
normalizedOriginOnly(url, urlObj) ==
  IF ~urlObj.ok THEN url ELSE origin(urlObj) \o SLASH

\* normalizeUrl once `new URL(url)` has returned urlObj.
normalized(url, urlObj) ==
  IF ~urlObj.ok THEN url
  ELSE href([urlObj EXCEPT !.hash = <<>>, !.search = sortedSearch(urlObj.search)])

\* CacheManager.normalizeUrl(url).
normalizeUrl(url) == normalized(url, ParseURL(url))

KeyPrefix == <<"p", "r", "e", "r", "e", "n", "d", "e", "r", ":">>

\* A key that is the same for every URL.
cacheKeyShared(url) == KeyPrefix

\* The store key of a URL: `prerender:${this.normalizeUrl(url)}`.
cacheKey(url) == KeyPrefix \o normalizeUrl(url)

\* The forwarded header names, in the order JSON.stringify writes them.
HeaderNames == <<"content-type", "x-robots-tag">>

RECURSIVE headerPairs(_, _)
headerPairs(hs, names) ==
  IF names = <<>> THEN <<>>
  ELSE (IF Head(names) \in DOMAIN hs THEN <<<<Head(names), hs[Head(names)]>>>> ELSE <<>>)
       \o headerPairs(hs, Tail(names))

\* A serialisation that leaves the headers out.
JSONstringifyNoHeaders(html, statusCode, headers, timestamp) ==
  <<<<"html", html>>, <<"statusCode", statusCode>>, <<"headers", <<>>>>,
    <<"timestamp", timestamp>>>>

\* JSON.stringify({html, statusCode, headers, timestamp}): the text, as the
\* list of its members.
JSONstringify(html, statusCode, headers, timestamp) ==
  <<<<"html", html>>, <<"statusCode", statusCode>>,
    <<"headers", headerPairs(headers, HeaderNames)>>, <<"timestamp", timestamp>>>>

\* The member named k of a JSON text.
member(text, k) == text[CHOOSE i \in 1..Len(text) : text[i][1] = k][2]

\* JSON.parse(cached) followed by the object get() builds from it.
JSONparse(text) ==
  LET hp == member(text, "headers")
  IN  [isNull |-> FALSE,
       html |-> member(text, "html"),
       statusCode |-> member(text, "statusCode"),
       headers |-> [h \in {hp[i][1] : i \in 1..Len(hp)} |->
                      hp[CHOOSE i \in 1..Len(hp) : hp[i][1] = h][2]],
       timestamp |-> member(text, "timestamp")]

NullEntry == [isNull |-> TRUE]

\* What the store answers to GET key at time t: the data, <<>> for nil.
storeGet(st, t, key) ==
  IF key \in DOMAIN st /\ t < st[key].expireAt THEN st[key].data ELSE <<>>

\* A store that keeps what it is given far beyond the TTL of the command.
storeSetExNoExpiry(st, t, key, ttl, data) ==
  [k \in DOMAIN st \cup {key} |->
     IF k = key THEN [data |-> data, expireAt |-> t + ttl * 1000 * 1000] ELSE st[k]]

\* A store that keeps the entry it has when the key is written again.
storeSetExKeepFirst(st, t, key, ttl, data) ==
  [k \in DOMAIN st \cup {key} |->
     IF k = key /\ key \notin DOMAIN st THEN [data |-> data, expireAt |-> t + ttl * 1000]
     ELSE st[k]]

\* The store after SETEX key ttl data at time t.
storeSetEx(st, t, key, ttl, data) ==
  [k \in DOMAIN st \cup {key} |->
     IF k = key THEN [data |-> data, expireAt |-> t + ttl * 1000] ELSE st[k]]

\* The store after DEL key.
storeDel(st, key) == [k \in DOMAIN st \ {key} |-> st[k]]

\* The guard of get, set and clear: the cache is disabled.
disabled(isConnected, hasClient) == ~isConnected \/ ~hasClient

\* A get() without its catch block: the error of the store call goes up.
getReturnRethrow(ok, data) ==
  IF ~ok THEN [threw |-> TRUE, value |-> NullEntry, logged |-> ""]
  ELSE IF data = <<>> THEN [threw |-> FALSE, value |-> NullEntry, logged |-> ""]
  ELSE [threw |-> FALSE, value |-> JSONparse(data), logged |-> ""]

\* What get() returns once the store has answered (ok, data) or the call
\* has thrown (~ok): [threw, value], and what it wrote to console.error.
getReturn(ok, data) ==
  IF ~ok THEN [threw |-> FALSE, value |-> NullEntry, logged |-> "Cache get error"]
  ELSE IF data = <<>> THEN [threw |-> FALSE, value |-> NullEntry, logged |-> ""]
  ELSE [threw |-> FALSE, value |-> JSONparse(data), logged |-> ""]

\* What get() returns while the cache is disabled.
getDisabled == [threw |-> FALSE, value |-> NullEntry, logged |-> ""]

\* What set() returns once the store call has ended.
setReturn(ok) ==
  [threw |-> FALSE, value |-> ok, logged |-> IF ok THEN "" ELSE "Cache set error"]

\* What set() returns while the cache is disabled.
setDisabled == [threw |-> FALSE, value |-> FALSE, logged |-> ""]

\* What clear() returns once the store call has ended.
clearReturn(ok) ==
  [threw |-> FALSE, value |-> ok, logged |-> IF ok THEN "" ELSE "Cache clear error"]

\* What clear() returns while the cache is disabled.
clearDisabled == [threw |-> FALSE, value |-> FALSE, logged |-> ""]

\* ------------------------------------------------------------------------
\* renderer.js: the parts of render() that compute
\* ------------------------------------------------------------------------
DigitValue ==
  [c \in {"0", "1", "2", "3", "4", "5", "6", "7", "8", "9"} |->
     CASE c = "0" -> 0 [] c = "1" -> 1 [] c = "2" -> 2 [] c = "3" -> 3 [] c = "4" -> 4
       [] c = "5" -> 5 [] c = "6" -> 6 [] c = "7" -> 7 [] c = "8" -> 8 [] c = "9" -> 9]

\* The value of the longest prefix of s made of decimal digits, read after
\* the number acc; -1 when s does not start with a digit and acc is -1.
RECURSIVE digitsPrefix(_, _)
digitsPrefix(s, acc) ==
  IF s = <<>> \/ Head(s) \notin DOMAIN DigitValue THEN acc
  ELSE digitsPrefix(Tail(s), (IF acc < 0 THEN 0 ELSE acc) * 10 + DigitValue[Head(s)])

\* parseInt(s, 10): [nan, value].  Leading blanks and a sign are skipped.
parseInt(s) ==
  LET t == substringFrom(s, firstOf(s, Range(s) \ {" "}))
      neg == t # <<>> /\ Head(t) = "-"
      u == IF t # <<>> /\ Head(t) \in {"-", "+"} THEN Tail(t) ELSE t
      v == digitsPrefix(u, -1)
  IN  IF v < 0 THEN [nan |-> TRUE, value |-> 0]
      ELSE [nan |-> FALSE, value |-> IF neg THEN 0 - v ELSE v]

\* An error of the browser: its name and the words of its message.
ETimeout == [name |-> "TimeoutError",
             message |-> <<"Navigation timeout of ", "30000", " ms exceeded">>]
ENet == [name |-> "Error", message |-> <<"net::ERR_", "CONNECTION_REFUSED", " at ", "url">>]
ENs == [name |-> "Error", message |-> <<"NS_ERROR_", "UNKNOWN_HOST">>]
ECrash == [name |-> "Error", message |-> <<"Protocol error: ", "Target closed">>]
ENoBrowser == [name |-> "Error",
               message |-> <<"Browser not initialized. Call initialize() first.">>]

\* String.prototype.includes on the words of a message.
includes(message, word) == word \in Range(message)

TimeoutHtml ==
  "<html><body><h1>Timeout Error</h1><p>The page took too long to load.</p></body></html>"
ConnectionHtml ==
  "<html><body><h1>Connection Error</h1><p>Could not connect to the requested page.</p></body></html>"

NoError == [name |-> "", message |-> <<>>]

\* A value render() returns.
Returned(html, statusCode, headers, redirected, finalUrl) ==
  [called |-> TRUE, threw |-> FALSE, error |-> NoError, html |-> html,
   statusCode |-> statusCode, headers |-> headers, redirected |-> redirected,
   finalUrl |-> finalUrl]

\* An error render() throws.
Thrown(error) ==
  [called |-> TRUE, threw |-> TRUE, error |-> error, html |-> "", statusCode |-> 0,
   headers |-> NoHeaders, redirected |-> FALSE, finalUrl |-> <<>>]

NotCalled ==
  [called |-> FALSE, threw |-> FALSE, error |-> NoError, html |-> "", statusCode |-> 0,
   headers |-> NoHeaders, redirected |-> FALSE, finalUrl |-> <<>>]

\* A catch block of render() that knows the timeout only.
renderCatchTimeoutOnly(url, error) ==
  IF error.name = "TimeoutError"
  THEN Returned(TimeoutHtml, 504, NoHeaders, FALSE, url)
  ELSE Thrown(error)

\* The catch block of render(): what an error caught turns into.
renderCatch(url, error) ==
  IF error.name = "TimeoutError"
  THEN Returned(TimeoutHtml, 504, NoHeaders, FALSE, url)
  ELSE IF includes(error.message, "net::ERR_") \/ includes(error.message, "NS_ERROR_")
  THEN Returned(ConnectionHtml, 502, NoHeaders, FALSE, url)
  ELSE Thrown(error)

\* A render() that never notices a redirect.
afterGotoNoRedirect(url, finalResponse) ==
  [statusCode |-> finalResponse.status,
   finalUrl |-> finalResponse.url,
   redirected |-> FALSE,
   responseHeaders |-> finalResponse.headers]

\* The locals of render() after navigation: finalResponse is the response
\* goto() resolved with (or the one waitForResponse() delivered); the values
\* the 'response' listener stored before are overwritten by it.
afterGoto(url, finalResponse) ==
  [statusCode |-> finalResponse.status,
   finalUrl |-> finalResponse.url,
   redirected |-> finalResponse.url # url,
   responseHeaders |-> finalResponse.headers]

\* An override that takes every number the meta value starts with.
overrideStatusAnyNumber(statusCode, prerenderStatusCode) ==
  IF prerenderStatusCode # <<>>
  THEN LET parsed == parseInt(prerenderStatusCode)
       IN  IF ~parsed.nan THEN parsed.value ELSE statusCode
  ELSE statusCode

\* The statusCode after the prerender-status-code override.
overrideStatus(statusCode, prerenderStatusCode) ==
  IF prerenderStatusCode # <<>>
  THEN LET parsed == parseInt(prerenderStatusCode)
       IN  IF ~parsed.nan /\ parsed.value >= 100 /\ parsed.value <= 599
           THEN parsed.value ELSE statusCode
  ELSE statusCode

\* The headers after the robots directive is added.
robotsHeaders(responseHeaders, robots) ==
  IF robots # "" THEN WithHeader(responseHeaders, "x-robots-tag", robots)
  ELSE responseHeaders

\* The value render() returns when extraction completes.
renderValue(locals, metaInfo, html) ==
  Returned(html, overrideStatus(locals.statusCode, metaInfo.prerenderStatusCode),
           robotsHeaders(locals.responseHeaders, metaInfo.robots),
           locals.redirected, locals.finalUrl)

\* ------------------------------------------------------------------------
\* index.js: the handler of app.get('*')
\* ------------------------------------------------------------------------
DigitChar == <<"0", "1", "2", "3", "4", "5", "6", "7", "8", "9">>

\* Number.prototype.toString(): the decimal digits of n.
RECURSIVE toString(_)
toString(n) ==
  IF n < 0 THEN <<"-">> \o toString(0 - n)
  ELSE IF n < 10 THEN <<DigitChar[n + 1]>>
  ELSE toString(n \div 10) \o <<DigitChar[(n % 10) + 1]>>

HtmlBody(html) == [json |-> FALSE, html |-> html]

\* A hit response that always says 200.
hitResponseOk(headers0, cached, t) ==
  LET age == (t - cached.timestamp) \div 1000
      h1 == WithHeader(headers0, "X-Prerender-Cache", "HIT")
      h2 == WithHeader(h1, "X-Prerender-Cache-Age", toString(age))
      h3 == IF "content-type" \in DOMAIN cached.headers
            THEN WithHeader(h2, "Content-Type", cached.headers["content-type"])
            ELSE h2
  IN  [sent |-> TRUE, status |-> 200, headers |-> h3, body |-> HtmlBody(cached.html)]

\* A hit response whose age is rounded to the nearest second.
hitResponseRounded(headers0, cached, t) ==
  LET age == (t - cached.timestamp + 500) \div 1000
      h1 == WithHeader(headers0, "X-Prerender-Cache", "HIT")
      h2 == WithHeader(h1, "X-Prerender-Cache-Age", toString(age))
      h3 == IF "content-type" \in DOMAIN cached.headers
            THEN WithHeader(h2, "Content-Type", cached.headers["content-type"])
            ELSE h2
  IN  [sent |-> TRUE, status |-> cached.statusCode, headers |-> h3,
       body |-> HtmlBody(cached.html)]

\* The response of a cache hit, on top of the headers set so far.
hitResponse(headers0, cached, t) ==
  LET age == (t - cached.timestamp) \div 1000
      h1 == WithHeader(headers0, "X-Prerender-Cache", "HIT")
      h2 == WithHeader(h1, "X-Prerender-Cache-Age", toString(age))
      h3 == IF "content-type" \in DOMAIN cached.headers
            THEN WithHeader(h2, "Content-Type", cached.headers["content-type"])
            ELSE h2
  IN  [sent |-> TRUE, status |-> cached.statusCode, headers |-> h3,
       body |-> HtmlBody(cached.html)]

\* The response of a cache miss, on top of the headers set so far.
missResponse(headers0, rendered, renderTime) ==
  LET h1 == WithHeader(headers0, "X-Prerender-Cache", "MISS")
      h2 == WithHeader(h1, "X-Prerender-Render-Time", toString(renderTime))
      h3 == WithHeader(h2, "Content-Type",
                       IF "content-type" \in DOMAIN rendered.headers
                       THEN rendered.headers["content-type"]
                       ELSE "text/html; charset=utf-8")
      h4 == IF rendered.redirected
            THEN WithHeader(WithHeader(h3, "X-Prerender-Redirected", "true"),
                            "X-Prerender-Final-URL", rendered.finalUrl)
            ELSE h3
  IN  [sent |-> TRUE, status |-> rendered.statusCode, headers |-> h4,
       body |-> HtmlBody(rendered.html)]

\* A catch block that marks its response as a miss.
errorResponseMiss(headers0, error, url) ==
  [sent |-> TRUE, status |-> 500,
   headers |-> WithHeader(headers0, "X-Prerender-Cache", "MISS"),
   body |-> [json |-> TRUE, error |-> [text |-> "Failed to render page", arg |-> <<>>],
             message |-> error.message, url |-> url]]

\* The response of the handler's catch block.
errorResponse(headers0, error, url) ==
  [sent |-> TRUE, status |-> 500, headers |-> headers0,
   body |-> [json |-> TRUE, error |-> [text |-> "Failed to render page", arg |-> <<>>],
             message |-> error.message, url |-> url]]

CacheError == [name |-> "Error", message |-> <<"cache operation failed">>]

\* The state of one request slot.
NoLocals ==
  [page |-> "null",
   locals |-> [statusCode |-> 200, finalUrl |-> <<>>, redirected |-> FALSE,
               responseHeaders |-> NoHeaders],
   metaInfo |-> [prerenderStatusCode |-> <<>>, robots |-> ""],
   caught |-> NoError,
   pending |-> NotCalled,
   renderTime |-> 0,
   setex |-> [key |-> <<>>, ttl |-> 0, data |-> <<>>]]
NoArgs == [url |-> <<>>, html |-> "", statusCode |-> 0, headers |-> NoHeaders, ttl |-> 0]
NoRet ==
  [get |-> [called |-> FALSE, threw |-> FALSE, value |-> NullEntry],
   render |-> NotCalled,
   set |-> [called |-> FALSE, args |-> NoArgs, data |-> <<>>, threw |-> FALSE,
            value |-> FALSE],
   clear |-> [called |-> FALSE, threw |-> FALSE, value |-> FALSE]]
NoCalls == [get |-> 0, render |-> 0, set |-> 0, clear |-> 0, open |-> 0, close |-> 0]
NoReq == [method |-> "GET", query |-> <<>>, header |-> <<>>, path |-> <<>>]
EmptyResp == [sent |-> FALSE, status |-> 0, headers |-> NoHeaders, body |-> HtmlBody("")]

Slot(r) ==
  [pc |-> pc[r], req |-> req[r], targetUrl |-> targetUrl[r], startTime |-> startTime[r],
   rstate |-> rstate[r], ret |-> ret[r], resp |-> resp[r], calls |-> calls[r]]

Put(r, L) ==
  /\ pc' = [pc EXCEPT ![r] = L.pc]
  /\ req' = [req EXCEPT ![r] = L.req]
  /\ targetUrl' = [targetUrl EXCEPT ![r] = L.targetUrl]
  /\ startTime' = [startTime EXCEPT ![r] = L.startTime]
  /\ rstate' = [rstate EXCEPT ![r] = L.rstate]
  /\ ret' = [ret EXCEPT ![r] = L.ret]
  /\ resp' = [resp EXCEPT ![r] = L.resp]
  /\ calls' = [calls EXCEPT ![r] = L.calls]

\* What a step of the handler reads of the shared state.
Env == [connected |-> connected, client |-> client, browser |-> browser, now |-> now]

\* res.send / res.json: the request is answered and the handler returns;
\* its locals are gone.
finish(L, response) ==
  [L EXCEPT !.pc = "done", !.resp = response, !.rstate = NoLocals, !.startTime = 0]

\* A catch block that answers every failure as a bad gateway page.
handlerCatchBadGateway(L, error) ==
  finish(L, [sent |-> TRUE, status |-> 502, headers |-> L.resp.headers,
             body |-> HtmlBody(ConnectionHtml)])

\* A catch block that tries the render once more before it gives up.
handlerCatchRetry(L, error) ==
  IF L.calls.render < 2
  THEN [L EXCEPT !.pc = "newPage", !.calls.render = @ + 1, !.rstate = NoLocals]
  ELSE finish(L, errorResponse(L.resp.headers, error, L.targetUrl))

\* The catch block of the handler.
handlerCatch(L, error) == finish(L, errorResponse(L.resp.headers, error, L.targetUrl))

\* A handler that answers 500 when cache.set reports that nothing was written.
afterSetFailsOnFalse(L, s) ==
  LET L1 == [L EXCEPT !.ret.set.threw = s.threw, !.ret.set.value = s.value]
  IN  IF s.threw \/ ~s.value THEN handlerCatch(L1, CacheError)
      ELSE finish(L1, missResponse(L1.resp.headers, L1.ret.render, L1.rstate.renderTime))

\* After `await cache.set(...)`: the MISS response.
afterSet(L, s) ==
  LET L1 == [L EXCEPT !.ret.set.threw = s.threw, !.ret.set.value = s.value]
  IN  IF s.threw THEN handlerCatch(L1, CacheError)
      ELSE finish(L1, missResponse(L1.resp.headers, L1.ret.render, L1.rstate.renderTime))

\* A set() that leaves the status out of what it stores, so that the
\* snapshot reads back with status 200.
setCommandOkStatus(args, t) ==
  [key |-> cacheKey(args.url), ttl |-> args.ttl,
   data |-> JSONstringify(args.html, 200, args.headers, t)]

\* cache.set(url, html, statusCode, headers, ttl) past its guard: the
\* command it sends to the store at time t.
setCommand(args, t) ==
  [key |-> cacheKey(args.url), ttl |-> args.ttl,
   data |-> JSONstringify(args.html, args.statusCode, args.headers, t)]

\* The arguments of cache.set(targetUrl, result.html, result.statusCode,
\* result.headers); ttl takes its default.
setArgs(url, rendered) ==
  [url |-> url, html |-> rendered.html, statusCode |-> rendered.statusCode,
   headers |-> rendered.headers, ttl |-> cacheTTL]

\* A handler that does not await cache.set: the response goes out while the
\* write is still on its way.
callSetNoAwait(L, args, command, env) ==
  afterSet([L EXCEPT !.calls.set = @ + 1, !.ret.set.called = TRUE, !.ret.set.args = args],
           setDisabled)

\* The call of cache.set with args, up to its store call for `command`.
callSet(L, args, command, env) ==
  IF disabled(env.connected, env.client)
  THEN afterSet([L EXCEPT !.calls.set = @ + 1, !.ret.set.called = TRUE,
                          !.ret.set.args = args],
                setDisabled)
  ELSE [L EXCEPT !.calls.set = @ + 1, !.ret.set.called = TRUE, !.ret.set.args = args,
                 !.pc = "set", !.rstate.setex = command, !.ret.set.data = command.data]

\* A handler that keeps synthetic 502/504 results out of the cache.
afterRenderSkipSynthetic(L, rendered, env) ==
  IF rendered.threw THEN handlerCatch([L EXCEPT !.ret.render = rendered], rendered.error)
  ELSE IF rendered.statusCode \in {502, 504}
  THEN afterSet([L EXCEPT !.ret.render = rendered,
                          !.rstate.renderTime = env.now - L.startTime],
                setDisabled)
  ELSE callSet([L EXCEPT !.ret.render = rendered,
                         !.rstate.renderTime = env.now - L.startTime],
               setArgs(L.targetUrl, rendered),
               setCommand(setArgs(L.targetUrl, rendered), env.now), env)

\* After `await renderer.render(targetUrl)`: the catch block when it threw,
\* else renderTime and the call of cache.set, up to its store call.
afterRender(L, rendered, env) ==
  IF rendered.threw THEN handlerCatch([L EXCEPT !.ret.render = rendered], rendered.error)
  ELSE callSet([L EXCEPT !.ret.render = rendered,
                         !.rstate.renderTime = env.now - L.startTime],
               setArgs(L.targetUrl, rendered),
               setCommand(setArgs(L.targetUrl, rendered), env.now), env)

\* The call renderer.render(targetUrl), up to its first await.
callRender(L, env) ==
  LET L1 == [L EXCEPT !.calls.render = @ + 1]
  IN  IF ~env.browser THEN afterRender(L1, Thrown(ENoBrowser), env)
      ELSE [L1 EXCEPT !.pc = "newPage"]

\* After `await cache.get(targetUrl)`: the HIT response, or the render.
afterGet(L, g, env) ==
  LET L1 == [L EXCEPT !.ret.get = [called |-> TRUE, threw |-> g.threw, value |-> g.value]]
  IN  IF g.threw THEN handlerCatch(L1, CacheError)
      ELSE IF ~g.value.isNull
      THEN finish(L1, hitResponse(L1.resp.headers, g.value, env.now))
      ELSE callRender(L1, env)

\* A handler that waits for the cache to be connected before it looks up.
handlerWaitsForCache(L, env) ==
  LET L1 == [L EXCEPT !.startTime = env.now, !.calls.get = @ + 1]
  IN  IF disabled(env.connected, env.client) THEN [L1 EXCEPT !.pc = "blocked"]
      ELSE [L1 EXCEPT !.pc = "get"]

\* The handler from its first line to its first await.
handler(L, env) ==
  LET L1 == [L EXCEPT !.startTime = env.now, !.calls.get = @ + 1]
  IN  IF disabled(env.connected, env.client) THEN afterGet(L1, getDisabled, env)
      ELSE [L1 EXCEPT !.pc = "get"]

\* The route once validateRequest has run with the outcome v.
routed(L, v, env) ==
  IF ~v.next THEN finish(L, v.resp)
  ELSE handler([L EXCEPT !.targetUrl = v.targetUrl, !.resp.headers = v.headers], env)

\* A request reaches app.get('*', validateRequest, handler).
route(L, q, domains, env) == routed([L EXCEPT !.req = q], validateRequest(domains, q), env)

\* The response of the health check; the second one reports a cache that
\* is always connected.
HealthPath == <<"/", "h", "e", "a", "l", "t", "h">>
healthAlwaysConnected(isConnected, t) ==
  [sent |-> TRUE, status |-> 200, headers |-> NoHeaders,
   body |-> [json |-> TRUE, status |-> "ok", cache |-> "connected", timestamp |-> t]]

health(isConnected, t) ==
  [sent |-> TRUE, status |-> 200, headers |-> NoHeaders,
   body |-> [json |-> TRUE, status |-> "ok",
             cache |-> IF isConnected THEN "connected" ELSE "disabled",
             timestamp |-> t]]

\* The response of the 404 handler.
NotFoundHint == "Use /?url=https://example.com or /render/https://example.com"
notFound ==
  [sent |-> TRUE, status |-> 404, headers |-> NoHeaders,
   body |-> [json |-> TRUE, error |-> [text |-> "Not found", arg |-> <<>>],
             hint |-> NotFoundHint]]

\* An application whose catch-all route takes every method.
appAllMethods(L, q, domains, env) ==
  IF q.method \in {"GET", "HEAD"} /\ q.path = HealthPath
  THEN finish([L EXCEPT !.req = q], health(env.connected, env.now))
  ELSE route(L, q, domains, env)

\* The application: the routes are tried in the order they were added.  Both
\* are GET routes, which take HEAD as well; '*' matches every path; what no
\* route takes falls through to the 404 handler.
app(L, q, domains, env) ==
  IF q.method \in {"GET", "HEAD"}
  THEN IF q.path = HealthPath
       THEN finish([L EXCEPT !.req = q], health(env.connected, env.now))
       ELSE route(L, q, domains, env)
  ELSE finish([L EXCEPT !.req = q], notFound)

\* ------------------------------------------------------------------------
\* Inputs: the requests that arrive and what the browser and the store do
\* ------------------------------------------------------------------------
UrlA == HTTPS \o COLON \o SS \o HostE \o <<"/", "p">>
UrlAq == UrlA \o <<"?", "q", "=", "x", "#", "f">>
UrlB == HTTP \o COLON \o SS \o HostSub \o <<"/", "r">>
UrlFtp == FTP \o COLON \o SS \o HostE
UrlBad == HostE
UrlEvil == HTTPS \o COLON \o SS \o HostEvil \o <<"/", "p">>

ByQuery(u) == [method |-> "GET", query |-> u, header |-> <<>>, path |-> SLASH]
ByHeader(u) == [method |-> "GET", query |-> <<>>, header |-> u, path |-> SLASH]
ByRenderPath(u) ==
  [method |-> "GET", query |-> <<>>, header |-> <<>>, path |-> RenderPrefix \o u]

\* The requests of the pipeline specification.
Requests ==
  {ByQuery(UrlAq), ByRenderPath(UrlB), ByQuery(<<>>), ByQuery(UrlFtp), ByQuery(UrlBad),
   ByQuery(UrlEvil)}

\* The allowlists the service may be configured with.
Allowlists == {<<HostE>>}

\* What newPage() may throw.
NewPageErrors == {ECrash}

\* How a navigation may end: goto() resolves with the final response or
\* throws.
Response(status, url, headers) == [status |-> status, url |-> url, headers |-> headers]
HtmlHeaders == [h \in {"content-type"} |-> "text/html"]
NavOk(url) ==
  [kind |-> "response", response |-> Response(200, url, HtmlHeaders), error |-> NoError]
NavRedirect(url) ==
  [kind |-> "response", response |-> Response(200, url \o <<"/">>, NoHeaders),
   error |-> NoError]
NavError(e) == [kind |-> "error", response |-> Response(0, <<>>, NoHeaders), error |-> e]

\* How the extraction may end: the meta tags and the html read, or a throw.
Meta(code, robots) == [prerenderStatusCode |-> code, robots |-> robots]
ExtPlain ==
  [kind |-> "ok", metaInfo |-> Meta(<<>>, ""), html |-> "<html>v1</html>", error |-> NoError]
ExtMeta ==
  [kind |-> "ok", metaInfo |-> Meta(<<"4", "0", "4">>, "noindex"), html |-> "<html>v2</html>",
   error |-> NoError]
ExtError(e) == [kind |-> "error", metaInfo |-> Meta(<<>>, ""), html |-> "", error |-> e]

\* The ways a page opened for url may go, in the pipeline specification.
PageOutcomes(url) ==
  {<<NavOk(url), ExtPlain>>, <<NavOk(url), ExtMeta>>, <<NavRedirect(url), ExtPlain>>,
   <<NavOk(url), ExtError(ECrash)>>}
  \cup {<<NavError(e), ExtPlain>> : e \in {ETimeout, ENet, ENs, ECrash}}

\* ------------------------------------------------------------------------
\* Initial state: the modules are loaded, start() has not run yet
\* ------------------------------------------------------------------------
Init ==
  /\ phase = "constructed"
  /\ allowedDomains \in Allowlists
  /\ client = FALSE
  /\ cacheLog = ""
  /\ connected = FALSE
  /\ browser = FALSE
  /\ store = [k \in {} |-> [data |-> <<>>, expireAt |-> 0]]
  /\ ticks = 0
  /\ pc = [r \in Reqs |-> "idle"]
  /\ req = [r \in Reqs |-> NoReq]
  /\ targetUrl = [r \in Reqs |-> <<>>]
  /\ startTime = [r \in Reqs |-> 0]
  /\ rstate = [r \in Reqs |-> NoLocals]
  /\ ret = [r \in Reqs |-> NoRet]
  /\ resp = [r \in Reqs |-> EmptyResp]
  /\ calls = [r \in Reqs |-> NoCalls]
  /\ openPages = {}

slotVars == <<pc, req, targetUrl, startTime, rstate, ret, resp, calls>>
configVars == <<allowedDomains>>

\* ------------------------------------------------------------------------
\* Life cycle (index.js start, SIGTERM / SIGINT) and the client's events
\* ------------------------------------------------------------------------
\* start(): cache.connect() creates the client and awaits client.connect().
StartConnect ==
  /\ phase = "constructed"
  /\ phase' = "connecting"
  /\ client' = TRUE
  /\ cacheLog' = ""
  /\ UNCHANGED <<configVars, connected, browser, store, ticks, slotVars, openPages>>

\* client.connect() resolves; start() goes on to renderer.initialize().
ConnectResolve ==
  /\ phase = "connecting"
  /\ phase' = "launching"
  /\ cacheLog' = ""
  /\ UNCHANGED <<configVars, client, connected, browser, store, ticks, slotVars, openPages>>

\* A catch block of connect() that only logs.
ConnectRejectKeepsFlag ==
  /\ phase = "connecting"
  /\ phase' = "launching"
  /\ cacheLog' = "Failed to connect to Redis"
  /\ UNCHANGED <<configVars, client, connected, browser, store, ticks, slotVars, openPages>>

\* client.connect() rejects: the catch block of connect().
ConnectReject ==
  /\ phase = "connecting"
  /\ phase' = "launching"
  /\ connected' = FALSE
  /\ cacheLog' = "Failed to connect to Redis"
  /\ UNCHANGED <<configVars, client, browser, store, ticks, slotVars, openPages>>

\* puppeteer.launch() resolves; app.listen().
LaunchResolve ==
  /\ phase = "launching"
  /\ phase' = "serving"
  /\ browser' = TRUE
  /\ cacheLog' = ""
  /\ UNCHANGED <<configVars, client, connected, store, ticks, slotVars, openPages>>

\* A start() that listens although the browser did not launch.
LaunchRejectListens ==
  /\ phase = "launching"
  /\ phase' = "serving"
  /\ cacheLog' = ""
  /\ UNCHANGED <<configVars, client, connected, browser, store, ticks, slotVars, openPages>>

\* puppeteer.launch() rejects: initialize() rethrows, start() exits.
LaunchReject ==
  /\ phase = "launching"
  /\ phase' = "exited"
  /\ cacheLog' = ""
  /\ UNCHANGED <<configVars, client, connected, browser, store, ticks, slotVars, openPages>>

\* A 'connect' handler that counts the first connection only: a later
\* 'connect' event leaves the flag as it is.
ClientConnectEventFirstOnly ==
  /\ client
  /\ phase \in {"connecting", "launching", "serving", "closing"}
  /\ connected' = (connected \/ phase = "connecting")
  /\ cacheLog' = ""
  /\ UNCHANGED <<phase, configVars, client, browser, store, ticks, slotVars, openPages>>

\* The client's 'connect' event.
ClientConnectEvent ==
  /\ client
  /\ phase \in {"connecting", "launching", "serving", "closing"}
  /\ connected' = TRUE
  /\ cacheLog' = ""
  /\ UNCHANGED <<phase, configVars, client, browser, store, ticks, slotVars, openPages>>

\* The client's 'error' event.
ClientErrorEvent ==
  /\ client
  /\ phase \in {"connecting", "launching", "serving", "closing"}
  /\ connected' = FALSE
  /\ cacheLog' = "Redis connection error"
  /\ UNCHANGED <<phase, configVars, client, browser, store, ticks, slotVars, openPages>>

\* SIGTERM or SIGINT: renderer.close() awaits browser.close().
Signal ==
  /\ phase = "serving"
  /\ phase' = "closing"
  /\ cacheLog' = ""
  /\ UNCHANGED <<configVars, client, connected, browser, store, ticks, slotVars, openPages>>

\* browser.close() resolves: this.browser = null; cache.disconnect() awaits
\* client.quit().
BrowserClosed ==
  /\ phase = "closing"
  /\ phase' = "quitting"
  /\ browser' = FALSE
  /\ cacheLog' = ""
  /\ UNCHANGED <<configVars, client, connected, store, ticks, slotVars, openPages>>

\* client.quit() resolves: connected = false; process.exit(0).
QuitResolve ==
  /\ phase = "quitting"
  /\ phase' = "exited"
  /\ connected' = FALSE
  /\ cacheLog' = ""
  /\ UNCHANGED <<configVars, client, browser, store, ticks, slotVars, openPages>>

\* Time passes; the store drops the entries whose time to live is over.
Tick ==
  /\ phase # "exited"
  /\ ticks < MaxTicks
  /\ ticks' = ticks + 1
  /\ store' = [k \in {x \in DOMAIN store : (ticks + 1) * TickMs < store[x].expireAt} |-> store[k]]
  /\ cacheLog' = ""
  /\ UNCHANGED <<phase, configVars, client, connected, browser, slotVars, openPages>>

\* Time passes on a clock that runs longer than that of Tick.
Elapse ==
  /\ phase # "exited"
  /\ ticks < MaxElapse
  /\ ticks' = ticks + 1
  /\ store' = [k \in {x \in DOMAIN store : (ticks + 1) * TickMs < store[x].expireAt} |-> store[k]]
  /\ cacheLog' = ""
  /\ UNCHANGED <<phase, configVars, client, connected, browser, slotVars, openPages>>

\* ------------------------------------------------------------------------
\* One request: the steps between the awaits of the handler and of render()
\* ------------------------------------------------------------------------
Listening == {"serving", "closing", "quitting"}

\* The request q arrives in slot r and runs to its first await.
Arrive(r, q) ==
  /\ phase \in Listening
  /\ pc[r] = "idle"
  /\ \A i \in 1..(r - 1) : pc[i] # "idle"
  /\ Put(r, app(Slot(r), q, allowedDomains, Env))
  /\ cacheLog' = ""
  /\ UNCHANGED <<phase, configVars, client, connected, browser, store, ticks, openPages>>

\* A handler that coalesces: a request whose lookup ends while another
\* request for the same URL is being rendered waits for that render instead
\* of starting its own.
GetReturnCoalesced(r, ok) ==
  /\ phase \in Listening
  /\ pc[r] = "get"
  /\ Put(r, IF \E r2 \in Reqs \ {r} : /\ targetUrl[r2] = targetUrl[r]
                                        /\ pc[r2] \in {"newPage", "goto", "close", "set"}
            THEN [Slot(r) EXCEPT !.pc = "wait",
                                 !.ret.get = [called |-> TRUE, threw |-> FALSE,
                                              value |-> NullEntry]]
            ELSE afterGet(Slot(r),
                          getReturn(ok, storeGet(store, now, cacheKey(targetUrl[r]))), Env))
  /\ cacheLog' = getReturn(ok, <<>>).logged
  /\ UNCHANGED <<phase, configVars, client, connected, browser, store, ticks, openPages>>

\* A get that gives the entry it reads a fresh time to live.
GetReturnTouch(r, ok) ==
  /\ phase \in Listening
  /\ pc[r] = "get"
  /\ Put(r, afterGet(Slot(r),
                     getReturn(ok, storeGet(store, now, cacheKey(targetUrl[r]))), Env))
  /\ cacheLog' = getReturn(ok, <<>>).logged
  /\ store' = [k \in DOMAIN store |->
                IF k = cacheKey(targetUrl[r])
                THEN [store[k] EXCEPT !.expireAt = now + cacheTTL * 1000]
                ELSE store[k]]
  /\ UNCHANGED <<phase, configVars, client, connected, browser, ticks, openPages>>

\* client.get(key) ends: the store answers (ok) or the call throws.
GetReturn(r, ok) ==
  /\ phase \in Listening
  /\ pc[r] = "get"
  /\ Put(r, afterGet(Slot(r),
                     getReturn(ok, storeGet(store, now, cacheKey(targetUrl[r]))), Env))
  /\ cacheLog' = getReturn(ok, <<>>).logged
  /\ UNCHANGED <<phase, configVars, client, connected, browser, store, ticks, openPages>>

\* browser.newPage() resolves; the page is set up and goto() is called.
NewPageResolve(r) ==
  /\ phase \in Listening
  /\ pc[r] = "newPage"
  /\ openPages' = openPages \cup {r}
  /\ Put(r, [Slot(r) EXCEPT !.pc = "goto", !.rstate.page = "open", !.calls.open = @ + 1,
                            !.rstate.locals.finalUrl = targetUrl[r]])
  /\ cacheLog' = ""
  /\ UNCHANGED <<phase, configVars, client, connected, browser, store, ticks>>

\* browser.newPage() rejects: catch, and finally finds no page to close.
NewPageReject(r, e) ==
  /\ phase \in Listening
  /\ pc[r] = "newPage"
  /\ Put(r, afterRender([Slot(r) EXCEPT !.rstate.caught = e],
                        renderCatch(targetUrl[r], e), Env))
  /\ cacheLog' = ""
  /\ UNCHANGED <<phase, configVars, client, connected, browser, store, ticks, openPages>>

\* page.goto() ends with the outcome nav and, when it delivered a response,
\* the settle wait, the meta tags and page.content() end with the outcome ext.
PageReturn(r, nav, ext) ==
  /\ phase \in Listening
  /\ pc[r] = "goto"
  /\ Put(r, [Slot(r) EXCEPT
               !.pc = "close",
               !.rstate.locals =
                 IF nav.kind = "response" THEN afterGoto(targetUrl[r], nav.response) ELSE @,
               !.rstate.metaInfo =
                 IF nav.kind = "response" /\ ext.kind = "ok" THEN ext.metaInfo ELSE @,
               !.rstate.caught =
                 IF nav.kind # "response" THEN nav.error
                 ELSE IF ext.kind = "ok" THEN @ ELSE ext.error,
               !.rstate.pending =
                 IF nav.kind # "response" THEN renderCatch(targetUrl[r], nav.error)
                 ELSE IF ext.kind = "ok"
                 THEN renderValue(afterGoto(targetUrl[r], nav.response), ext.metaInfo, ext.html)
                 ELSE renderCatch(targetUrl[r], ext.error)])
  /\ cacheLog' = ""
  /\ UNCHANGED <<phase, configVars, client, connected, browser, store, ticks, openPages>>

\* A render() that closes its page at the end of the try block and of the
\* two handled cases only: an error it rethrows leaves the page open.
CloseReturnUnlessThrown(r) ==
  /\ phase \in Listening
  /\ pc[r] = "close"
  /\ openPages' = IF rstate[r].pending.threw THEN openPages ELSE openPages \ {r}
  /\ Put(r, afterRender([Slot(r) EXCEPT
                           !.rstate.page = IF rstate[r].pending.threw THEN @ ELSE "closed",
                           !.calls.close = IF rstate[r].pending.threw THEN @ ELSE @ + 1],
                        rstate[r].pending, Env))
  /\ cacheLog' = ""
  /\ UNCHANGED <<phase, configVars, client, connected, browser, store, ticks>>

\* finally: page.close() resolves; render() returns or throws what is pending.
CloseReturn(r) ==
  /\ phase \in Listening
  /\ pc[r] = "close"
  /\ openPages' = openPages \ {r}
  /\ Put(r, afterRender([Slot(r) EXCEPT !.rstate.page = "closed", !.calls.close = @ + 1],
                        rstate[r].pending, Env))
  /\ cacheLog' = ""
  /\ UNCHANGED <<phase, configVars, client, connected, browser, store, ticks>>

\* client.setEx(key, ttl, data) ends: the store has written (ok) or the
\* call throws.
SetReturn(r, ok) ==
  /\ phase \in Listening
  /\ pc[r] = "set"
  /\ store' = IF ok
              THEN storeSetEx(store, now, rstate[r].setex.key, rstate[r].setex.ttl,
                              rstate[r].setex.data)
              ELSE store
  /\ Put(r, afterSet(Slot(r), setReturn(ok)))
  /\ cacheLog' = setReturn(ok).logged
  /\ UNCHANGED <<phase, configVars, client, connected, browser, ticks, openPages>>

\* ------------------------------------------------------------------------
\* The cache component on its own: a caller invokes get, set and clear
\* ------------------------------------------------------------------------
\* The URLs and snapshots the caller passes.
CacheUrls == {UrlA, UrlB}
RobotsHeaders == [h \in {"content-type", "x-robots-tag"} |->
                    IF h = "content-type" THEN "text/html" ELSE "noindex"]
CacheArgs ==
  {[url |-> UrlA, html |-> "<html>v1</html>", statusCode |-> 200, headers |-> HtmlHeaders,
    ttl |-> cacheTTL],
   [url |-> UrlB, html |-> "<html>v2</html>", statusCode |-> 404, headers |-> RobotsHeaders,
    ttl |-> cacheTTL]}

CallerPhases == {"constructed", "connecting", "launching"}

\* get(url) is called and runs to its store call or, disabled, to its end.
CacheGetCall(r, url) ==
  /\ phase \in CallerPhases
  /\ pc[r] = "idle"
  /\ Put(r, LET L == [Slot(r) EXCEPT !.targetUrl = url, !.calls.get = @ + 1]
            IN  IF disabled(connected, client)
                THEN [L EXCEPT !.pc = "cdone",
                               !.ret.get = [called |-> TRUE, threw |-> getDisabled.threw,
                                            value |-> getDisabled.value]]
                ELSE [L EXCEPT !.pc = "cget"])
  /\ cacheLog' = ""
  /\ UNCHANGED <<phase, configVars, client, connected, browser, store, ticks, openPages>>

\* client.get(key) ends: the store answers (ok) or the call throws.
CacheGetReturn(r, ok) ==
  /\ phase \in CallerPhases
  /\ pc[r] = "cget"
  /\ Put(r, LET g == getReturn(ok, storeGet(store, now, cacheKey(targetUrl[r])))
            IN  [Slot(r) EXCEPT !.pc = "cdone",
                                !.ret.get = [called |-> TRUE, threw |-> g.threw,
                                             value |-> g.value]])
  /\ cacheLog' = getReturn(ok, <<>>).logged
  /\ UNCHANGED <<phase, configVars, client, connected, browser, store, ticks, openPages>>

\* set(url, html, statusCode, headers, ttl) is called.
CacheSetCall(r, args) ==
  /\ phase \in CallerPhases
  /\ pc[r] = "idle"
  /\ Put(r, LET L == [Slot(r) EXCEPT !.targetUrl = args.url, !.calls.set = @ + 1,
                                     !.ret.set.called = TRUE, !.ret.set.args = args]
            IN  IF disabled(connected, client)
                THEN [L EXCEPT !.pc = "cdone", !.ret.set.threw = setDisabled.threw,
                               !.ret.set.value = setDisabled.value]
                ELSE [L EXCEPT !.pc = "cset", !.rstate.setex = setCommand(args, now),
                               !.ret.set.data = JSONstringify(args.html, args.statusCode,
                                                              args.headers, now)])
  /\ cacheLog' = ""
  /\ UNCHANGED <<phase, configVars, client, connected, browser, store, ticks, openPages>>

\* client.setEx(key, ttl, data) ends.
CacheSetReturn(r, ok) ==
  /\ phase \in CallerPhases
  /\ pc[r] = "cset"
  /\ store' = IF ok
              THEN storeSetEx(store, now, rstate[r].setex.key, rstate[r].setex.ttl,
                              rstate[r].setex.data)
              ELSE store
  /\ Put(r, [Slot(r) EXCEPT !.pc = "cdone", !.rstate = NoLocals,
                            !.ret.set.threw = setReturn(ok).threw,
                            !.ret.set.value = setReturn(ok).value])
  /\ cacheLog' = setReturn(ok).logged
  /\ UNCHANGED <<phase, configVars, client, connected, browser, ticks, openPages>>

\* clear(url) is called.
CacheClearCall(r, url) ==
  /\ phase \in CallerPhases
  /\ pc[r] = "idle"
  /\ Put(r, LET L == [Slot(r) EXCEPT !.targetUrl = url, !.calls.clear = @ + 1]
            IN  IF disabled(connected, client)
                THEN [L EXCEPT !.pc = "cdone",
                               !.ret.clear = [called |-> TRUE, threw |-> clearDisabled.threw,
                                              value |-> clearDisabled.value]]
                ELSE [L EXCEPT !.pc = "cclear"])
  /\ cacheLog' = ""
  /\ UNCHANGED <<phase, configVars, client, connected, browser, store, ticks, openPages>>

\* client.del(key) ends.
CacheClearReturn(r, ok) ==
  /\ phase \in CallerPhases
  /\ pc[r] = "cclear"
  /\ store' = IF ok THEN storeDel(store, cacheKey(targetUrl[r])) ELSE store
  /\ Put(r, [Slot(r) EXCEPT !.pc = "cdone",
                            !.ret.clear = [called |-> TRUE, threw |-> clearReturn(ok).threw,
                                           value |-> clearReturn(ok).value]])
  /\ cacheLog' = clearReturn(ok).logged
  /\ UNCHANGED <<phase, configVars, client, connected, browser, ticks, openPages>>

\* The caller is done with the value returned and makes its next call.
CallerNext(r) ==
  /\ pc[r] = "cdone"
  /\ pc' = [pc EXCEPT ![r] = "idle"]
  /\ targetUrl' = [targetUrl EXCEPT ![r] = <<>>]
  /\ ret' = [ret EXCEPT ![r] = NoRet]
  /\ calls' = [calls EXCEPT ![r] = NoCalls]
  /\ cacheLog' = ""
  /\ UNCHANGED <<phase, configVars, client, connected, browser, store, ticks, req,
                 startTime, rstate, resp, openPages>>

\* ------------------------------------------------------------------------
\* Specifications
\* ------------------------------------------------------------------------
\* The steps of the requests in flight.
RequestSteps ==
  \/ \E r \in Reqs : \E ok \in BOOLEAN : GetReturn(r, ok)
  \/ \E r \in Reqs : NewPageResolve(r)
  \/ \E r \in Reqs : \E e \in NewPageErrors : NewPageReject(r, e)
  \/ \E r \in Reqs : \E o \in PageOutcomes(targetUrl[r]) : PageReturn(r, o[1], o[2])
  \/ \E r \in Reqs : CloseReturn(r)
  \/ \E r \in Reqs : \E ok \in BOOLEAN : SetReturn(r, ok)

\* The pipeline: the service starts and serves requests while time passes
\* and the store client connects and fails.
Next ==
  \/ StartConnect \/ ConnectResolve \/ ConnectReject \/ LaunchResolve \/ LaunchReject
  \/ ClientConnectEvent \/ ClientErrorEvent
  \/ Tick
  \/ \E r \in Reqs : \E q \in Requests : Arrive(r, q)
  \/ RequestSteps

Spec == Init /\ [][Next]_vars

\* The life cycle: the service starts, serves one kind of request and is
\* shut down by a signal while requests are in flight; the clock stands.
RequestsLife == {ByQuery(UrlAq)}

NextLife ==
  \/ StartConnect \/ ConnectResolve \/ ConnectReject \/ LaunchResolve \/ LaunchReject
  \/ ClientConnectEvent \/ ClientErrorEvent
  \/ Signal \/ BrowserClosed \/ QuitResolve
  \/ \E r \in Reqs : \E q \in RequestsLife : Arrive(r, q)
  \/ RequestSteps

SpecLife == Init /\ [][NextLife]_vars

\* The renderer: requests for one URL are rendered, the navigation ends
\* with one of several statuses and the page carries one of several
\* prerender-status-code values; the clock stands.
MetaStatuses == {200, 500, 999}
MetaContents ==
  {<<>>, <<"4", "0", "4">>, <<"1", "0", "0">>, <<"5", "9", "9">>, <<"9", "9">>,
   <<"6", "0", "0">>, <<"a", "b", "c">>, <<"-", "4", "0", "4">>, <<" ", "4", "1", "0">>,
   <<"4", "0", "x">>, <<"4", "0", "4", "x">>}
MetaOutcomes(url) ==
  {<<[kind |-> "response", response |-> Response(st, url, HtmlHeaders), error |-> NoError],
     [kind |-> "ok", metaInfo |-> Meta(c, ""), html |-> "<html>v1</html>",
      error |-> NoError]>> : st \in MetaStatuses, c \in MetaContents}

NextMeta ==
  \/ StartConnect \/ ConnectResolve \/ ConnectReject \/ LaunchResolve
  \/ ClientConnectEvent
  \/ \E r \in Reqs : \E q \in RequestsLife : Arrive(r, q)
  \/ \E r \in Reqs : \E ok \in BOOLEAN : GetReturn(r, ok)
  \/ \E r \in Reqs : NewPageResolve(r)
  \/ \E r \in Reqs : \E o \in MetaOutcomes(targetUrl[r]) : PageReturn(r, o[1], o[2])
  \/ \E r \in Reqs : CloseReturn(r)
  \/ \E r \in Reqs : \E ok \in BOOLEAN : SetReturn(r, ok)

SpecMeta == Init /\ [][NextMeta]_vars

\* The front of the pipeline: requests that carry their URL in every way
\* extractUrl knows, with URLs of several schemes, hosts and encodings,
\* under several allowlists; every page renders alike and the store
\* answers every call; the clock stands.
HostX == <<"x", ".", "c">>
UrlC == HTTPS \o COLON \o SS \o HostE \o <<"/", "x">>
UrlD == HTTP \o COLON \o SS \o HostE \o <<"/", "b">>
UrlAf == UrlA \o <<"#", "f">>
UrlEnc == HTTPS \o COLON \o SS \o HostE \o <<"/", "a", "%", "2", "F", "b">>
UrlEncQ == UrlEnc \o <<"?", "q", "=", "x">>
UrlEncBadQ == UrlEnc \o <<"?", "q", "=", "%">>
UrlTwice == HTTPS \o COLON \o SS \o HostE \o <<"/", "p", "%", "2", "5", "2", "6", "x">>
UrlSub == HTTPS \o COLON \o SS \o HostSub \o <<"/", "x">>
UrlNotE == HTTPS \o COLON \o SS \o HostNotE \o <<"/", "x">>
UrlFtpQ == UrlFtp \o <<"?", "q", "=", "x">>
UrlData == <<"d", "a", "t", "a", ":", "x">>

UrlAmp == UrlA \o <<"&", "x">>
UrlAmpY == UrlA \o <<"&", "y", "/", "z">>
UrlPctAmp == UrlA \o <<"%", "2", "6", "x">>
UrlPctAmpBadQ == UrlPctAmp \o <<"?", "q", "=", "%">>
UrlPctQuery == UrlA \o <<"%", "3", "F", "q">>
UrlFtpEvil == FTP \o COLON \o SS \o HostEvil
UrlBadHost == FTP \o COLON \o SS \o <<"v", "^", "c">>
Request(query, header, path) ==
  [method |-> "GET", query |-> query, header |-> header, path |-> path]

RequestsUrl ==
  {ByHeader(UrlA), ByHeader(UrlAq), ByHeader(UrlAf), ByHeader(UrlEncQ),
   ByHeader(UrlEncBadQ), ByHeader(UrlFtp), ByHeader(UrlFtpQ), ByHeader(UrlTwice),
   ByQuery(UrlC), ByQuery(UrlSub), ByQuery(UrlNotE), ByQuery(UrlEvil),
   ByQuery(UrlFtp), ByRenderPath(UrlFtp), ByQuery(UrlData),
   Request(UrlA, UrlB, RenderPrefix \o UrlC),
   Request(<<>>, UrlB, RenderPrefix \o UrlC),
   Request(<<>>, <<>>, RenderPrefix \o UrlC),
   Request(<<>>, <<>>, SLASH \o UrlD),
   Request(UrlA, <<>>, SLASH \o UrlD),
   Request(<<>>, UrlB, SLASH \o UrlD),
   Request(<<>>, <<>>, SLASH),
   Request(<<>>, <<>>, <<"/", "x">>),
   Request(<<>>, <<>>, RenderPrefix),
   Request(<<>>, <<>>, SLASH \o UrlFtp),
   ByHeader(UrlAmp), ByQuery(UrlAmpY), ByRenderPath(UrlPctAmp), ByHeader(UrlPctAmpBadQ),
   ByRenderPath(UrlPctQuery), ByQuery(UrlAq), Request(<<>>, <<>>, SLASH \o UrlPctQuery),
   ByQuery(UrlBad), ByQuery(UrlFtpEvil), ByHeader(UrlBadHost)}

AllowlistsUrl == {<<>>, <<HostE>>, <<HostX, HostE>>}

InitUrl ==
  /\ phase = "constructed"
  /\ allowedDomains \in AllowlistsUrl
  /\ client = FALSE
  /\ cacheLog = ""
  /\ connected = FALSE
  /\ browser = FALSE
  /\ store = [k \in {} |-> [data |-> <<>>, expireAt |-> 0]]
  /\ ticks = 0
  /\ pc = [r \in Reqs |-> "idle"]
  /\ req = [r \in Reqs |-> NoReq]
  /\ targetUrl = [r \in Reqs |-> <<>>]
  /\ startTime = [r \in Reqs |-> 0]
  /\ rstate = [r \in Reqs |-> NoLocals]
  /\ ret = [r \in Reqs |-> NoRet]
  /\ resp = [r \in Reqs |-> EmptyResp]
  /\ calls = [r \in Reqs |-> NoCalls]
  /\ openPages = {}

NextUrl ==
  \/ StartConnect \/ ConnectResolve \/ LaunchResolve
  \/ ClientConnectEvent
  \/ \E r \in Reqs : \E q \in RequestsUrl : Arrive(r, q)
  \/ \E r \in Reqs : GetReturn(r, TRUE)
  \/ \E r \in Reqs : NewPageResolve(r)
  \/ \E r \in Reqs : PageReturn(r, NavOk(targetUrl[r]), ExtPlain)
  \/ \E r \in Reqs : CloseReturn(r)
  \/ \E r \in Reqs : SetReturn(r, TRUE)

SpecUrl == InitUrl /\ [][NextUrl]_vars

\* Expiry: requests for one URL are rendered and cached while the clock runs
\* for several TTLs; every page renders alike and the store answers every
\* call, after any delay.
NextTtl ==
  \/ StartConnect \/ ConnectResolve \/ LaunchResolve
  \/ ClientConnectEvent
  \/ Elapse
  \/ \E r \in Reqs : \E q \in RequestsLife : Arrive(r, q)
  \/ \E r \in Reqs : GetReturn(r, TRUE)
  \/ \E r \in Reqs : NewPageResolve(r)
  \/ \E r \in Reqs : PageReturn(r, NavOk(targetUrl[r]), ExtPlain)
  \/ \E r \in Reqs : CloseReturn(r)
  \/ \E r \in Reqs : SetReturn(r, TRUE)

SpecTtl == Init /\ [][NextTtl]_vars

\* Routing: requests of several methods for several paths; every page
\* renders alike and the store answers every call; the clock stands.
Methods == {"GET", "HEAD", "POST"}
RequestsRoute ==
  {[q EXCEPT !.method = m] :
     m \in Methods,
     q \in {ByQuery(UrlA), ByQuery(<<>>), ByRenderPath(UrlA),
            Request(<<>>, <<>>, HealthPath), Request(UrlA, <<>>, HealthPath),
            Request(<<>>, <<>>, <<"/", "x">>)}}

NextRoute ==
  \/ StartConnect \/ ConnectResolve \/ ConnectReject \/ LaunchResolve
  \/ ClientConnectEvent
  \/ \E r \in Reqs : \E q \in RequestsRoute : Arrive(r, q)
  \/ \E r \in Reqs : GetReturn(r, TRUE)
  \/ \E r \in Reqs : NewPageResolve(r)
  \/ \E r \in Reqs : PageReturn(r, NavOk(targetUrl[r]), ExtPlain)
  \/ \E r \in Reqs : CloseReturn(r)
  \/ \E r \in Reqs : SetReturn(r, TRUE)

SpecRoute == Init /\ [][NextRoute]_vars

\* Progress: every call a request waits for ends at some time -- the store
\* answers or fails, newPage() resolves or rejects, the navigation ends with
\* a response, an error or the timeout, the page closes; the client connects
\* and fails meanwhile; the clock stands.
RequestsLive == {ByQuery(UrlAq), ByQuery(<<>>)}
RequestStep(r) ==
  \/ \E ok \in BOOLEAN : GetReturn(r, ok)
  \/ NewPageResolve(r)
  \/ \E e \in NewPageErrors : NewPageReject(r, e)
  \/ \E o \in PageOutcomes(targetUrl[r]) : PageReturn(r, o[1], o[2])
  \/ CloseReturn(r)
  \/ \E ok \in BOOLEAN : SetReturn(r, ok)

NextLive ==
  \/ StartConnect \/ ConnectResolve \/ ConnectReject \/ LaunchResolve
  \/ ClientConnectEvent \/ ClientErrorEvent
  \/ \E r \in Reqs : \E q \in RequestsLive : Arrive(r, q)
  \/ \E r \in Reqs : RequestStep(r)

\* The call request r waits for ends: these are the steps of RequestStep(r),
\* told by the position of r alone, and they are possible exactly when r
\* waits while the process runs.
Waiting == {"get", "newPage", "goto", "close", "set"}
Returns(r) ==
  /\ phase \in Listening
  /\ pc[r] \in Waiting
  /\ pc' \in [Reqs -> Waiting \cup {"idle", "done"}]
  /\ pc'[r] # pc[r]

SpecLive == Init /\ [][NextLive]_vars /\ \A r \in Reqs : WF_pc(Returns(r))

\* The cache component driven by a caller.
NextCache ==
  \/ StartConnect \/ ConnectResolve \/ ConnectReject
  \/ ClientConnectEvent \/ ClientErrorEvent
  \/ Tick
  \/ \E r \in Reqs : \E u \in CacheUrls : CacheGetCall(r, u)
  \/ \E r \in Reqs : \E ok \in BOOLEAN : CacheGetReturn(r, ok)
  \/ \E r \in Reqs : \E a \in CacheArgs : CacheSetCall(r, a)
  \/ \E r \in Reqs : \E ok \in BOOLEAN : CacheSetReturn(r, ok)
  \/ \E r \in Reqs : \E u \in CacheUrls : CacheClearCall(r, u)
  \/ \E r \in Reqs : \E ok \in BOOLEAN : CacheClearReturn(r, ok)
  \/ \E r \in Reqs : CallerNext(r)

SpecCache == Init /\ [][NextCache]_vars

\* ------------------------------------------------------------------------
\* Properties
\* ------------------------------------------------------------------------
\* The value of the response header h of slot r in the responses rs, <<>> when
\* the header is not set.
Header(rs, r, h) == IF h \in DOMAIN rs[r].headers THEN rs[r].headers[h] ELSE <<>>

\* C1: whenever a request whose lookup came back absent is answered after
\* render() returned a result, the handler has called cache.set exactly once
\* with the canonical URL, the result's html, statusCode and headers and the
\* default TTL, whatever the status (200, a meta override, or the synthetic
\* 502 and 504); when the store took the write, the entry under the prefixed
\* canonical URL reads back as that html, statusCode and headers and expires
\* cacheTTL seconds after the write; and the response carries
\* X-Prerender-Cache: MISS, the rendered status and the rendered html.
C1_MissStoresResult ==
  [][\A r \in Reqs :
       (pc[r] # "done" /\ pc'[r] = "done"
          /\ ret'[r].render.called /\ ~ret'[r].render.threw)
       => LET result == ret'[r].render
              key == KeyPrefix \o targetUrl[r]
          IN  /\ ret'[r].get.called /\ ret'[r].get.value.isNull
              /\ calls'[r].set = 1
              /\ ret'[r].set.args = [url |-> targetUrl[r], html |-> result.html,
                                     statusCode |-> result.statusCode,
                                     headers |-> result.headers, ttl |-> cacheTTL]
              /\ ret'[r].set.value
                   => /\ key \in DOMAIN store'
                      /\ store'[key].expireAt = now + cacheTTL * 1000
                      /\ JSONparse(store'[key].data).html = result.html
                      /\ JSONparse(store'[key].data).statusCode = result.statusCode
                      /\ JSONparse(store'[key].data).headers = result.headers
              /\ Header(resp', r, "X-Prerender-Cache") = "MISS"
              /\ resp'[r].status = result.statusCode
              /\ resp'[r].body = [json |-> FALSE, html |-> result.html]]_vars

\* C1 happens: one request was answered with a genuine 200 and another with
\* the synthetic 504, both MISS, and both results are in the store.
C1_Witness ==
  \E r1, r2 \in Reqs :
    /\ pc[r1] = "done" /\ pc[r2] = "done"
    /\ ret[r1].render.statusCode = 200 /\ ret[r2].render.statusCode = 504
    /\ ret[r1].set.value /\ ret[r2].set.value
    /\ Header(resp, r1, "X-Prerender-Cache") = "MISS"
    /\ Header(resp, r2, "X-Prerender-Cache") = "MISS"
    /\ resp[r2].body.html = TimeoutHtml
    /\ KeyPrefix \o targetUrl[r1] \in DOMAIN store
    /\ KeyPrefix \o targetUrl[r2] \in DOMAIN store

\* C2: when the lookup of a request returns an entry, that entry is what the
\* store holds under the prefixed canonical URL, the request is answered at
\* once with the entry's status code, the entry's html as the body,
\* X-Prerender-Cache: HIT and X-Prerender-Cache-Age = floor((now -
\* entry.timestamp) / 1000) in decimal; render() and cache.set have not been
\* called for the request and never are, no page is opened and the store is
\* left as it was.
C2_HitAnswersFromEntry ==
  [][\A r \in Reqs :
       /\ (pc[r] = "get" /\ pc'[r] # "get" /\ ~ret'[r].get.value.isNull)
          => LET entry == ret'[r].get.value
             IN  /\ entry = JSONparse(store[KeyPrefix \o targetUrl[r]].data)
                 /\ pc'[r] = "done"
                 /\ resp'[r].status = entry.statusCode
                 /\ resp'[r].body = [json |-> FALSE, html |-> entry.html]
                 /\ Header(resp', r, "X-Prerender-Cache") = "HIT"
                 /\ now >= entry.timestamp
                 /\ Header(resp', r, "X-Prerender-Cache-Age")
                      = toString((now - entry.timestamp) \div 1000)
                 /\ ~ret'[r].render.called /\ calls'[r].render = 0
                 /\ ~ret'[r].set.called /\ calls'[r].set = 0
                 /\ calls'[r].open = 0
                 /\ store' = store /\ openPages' = openPages
       /\ (pc[r] = "done" /\ Header(resp, r, "X-Prerender-Cache") = "HIT")
          => /\ calls[r].render = 0 /\ calls[r].set = 0
             /\ calls'[r] = calls[r] /\ ret'[r] = ret[r] /\ resp'[r] = resp[r]]_vars

\* C2 happens: a request was answered from an entry that was one second old
\* and held the status 404 of a meta override.
C2_Witness ==
  \E r \in Reqs :
    /\ pc[r] = "done"
    /\ ~ret[r].get.value.isNull
    /\ Header(resp, r, "X-Prerender-Cache") = "HIT"
    /\ Header(resp, r, "X-Prerender-Cache-Age") = <<"1">>
    /\ resp[r].status = 404
    /\ resp[r].body.html = "<html>v2</html>"

\* The requests that carry no usable URL, each with the reason it is refused
\* for: no URL at all, a text that is no URL, a scheme other than http and
\* https, a host outside the allowlist.
C3_Refused ==
  {<<ByQuery(<<>>), "No URL provided", <<>>>>,
   <<ByQuery(UrlBad), "Invalid URL format", <<>>>>,
   <<ByQuery(UrlFtp), "Only HTTP and HTTPS protocols are allowed", <<>>>>,
   <<ByQuery(UrlEvil), "Domain ${hostname} is not in the allowed domains list", HostEvil>>}

\* C3: a request whose URL is missing, unparsable, of a scheme other than
\* http/https or of a host outside the allowlist is answered 400 with the
\* reason and the usage hint as soon as it arrives; cache.get, cache.set and
\* render() are never called for it and no page is opened; and every entry in
\* the store was written by a request that passed validation.
C3_InvalidIsRefused ==
  /\ \A r \in Reqs : \A c \in C3_Refused :
       req[r] = c[1]
       => /\ pc[r] = "done"
          /\ resp[r].sent /\ resp[r].status = 400
          /\ resp[r].body =
               [json |-> TRUE, error |-> [text |-> c[2], arg |-> c[3]],
                hint |-> "Provide URL via ?url=https://example.com or X-Prerender-URL header"]
          /\ calls[r].get = 0 /\ calls[r].set = 0 /\ calls[r].render = 0
          /\ calls[r].open = 0
          /\ ~ret[r].get.called /\ ~ret[r].set.called /\ ~ret[r].render.called
  /\ \A k \in DOMAIN store :
       \E r \in Reqs : /\ req[r] \notin {c[1] : c \in C3_Refused}
                       /\ ret[r].set.called
                       /\ k = KeyPrefix \o targetUrl[r]

\* C3 happens: a request for an ftp URL and a request for a host outside the
\* allowlist have both been answered 400.
C3_Witness ==
  \E r1, r2 \in Reqs :
    /\ req[r1] = ByQuery(UrlFtp) /\ resp[r1].status = 400
    /\ req[r2] = ByQuery(UrlEvil) /\ resp[r2].status = 400
    /\ resp[r2].body.error.arg = HostEvil

\* C4: in the step in which render() raises -- the browser is gone, or the
\* error caught is neither a TimeoutError nor a net::ERR_ / NS_ERROR_ one --
\* the request is answered 500 with the JSON body {error, message, url};
\* cache.set has not been called for it and never is, the step leaves the
\* store as it was, and the store only ever changes in the setEx step of a
\* request that called cache.set, which such a request never reaches.
C4_RenderRaisesIs500 ==
  [][/\ \A r \in Reqs :
          /\ (~ret[r].render.called /\ ret'[r].render.threw)
             => /\ ret'[r].render.error.name # "TimeoutError"
                /\ "net::ERR_" \notin Range(ret'[r].render.error.message)
                /\ "NS_ERROR_" \notin Range(ret'[r].render.error.message)
                /\ pc'[r] = "done"
                /\ resp'[r].sent /\ resp'[r].status = 500
                /\ resp'[r].body =
                     [json |-> TRUE,
                      error |-> [text |-> "Failed to render page", arg |-> <<>>],
                      message |-> ret'[r].render.error.message,
                      url |-> targetUrl'[r]]
                /\ calls'[r].set = 0 /\ ~ret'[r].set.called
                /\ store' = store
          /\ ret[r].render.threw
             => /\ pc[r] = "done" /\ pc'[r] = "done"
                /\ calls[r].set = 0 /\ calls'[r].set = 0
                /\ resp'[r] = resp[r]
     /\ store' # store
          => \/ ticks' # ticks
             \/ \E r \in Reqs : pc[r] = "set" /\ calls[r].set = 1 /\ ~ret[r].render.threw
    ]_vars

\* C4 happens: one request was answered 500 after its page crashed, another
\* after the browser had been closed by the shutdown.
C4_Witness ==
  \E r1, r2 \in Reqs :
    /\ ret[r1].render.threw /\ ret[r1].render.error = ECrash
    /\ calls[r1].open = 1
    /\ ret[r2].render.threw /\ ret[r2].render.error = ENoBrowser
    /\ resp[r1].status = 500 /\ resp[r2].status = 500
    /\ resp[r2].body.message = <<"Browser not initialized. Call initialize() first.">>

\* C5: get, set and clear never throw.  A call made while connected is false
\* or there is no client returns at once -- absent for get, false for set
\* and clear -- and the store is not contacted; a call made otherwise goes to
\* the store; and when the store call fails, get returns absent and set and
\* clear return false, the store unchanged.
C5_CacheNeverThrows ==
  [][\A r \in Reqs :
       /\ ~ret'[r].get.threw /\ ~ret'[r].set.threw /\ ~ret'[r].clear.threw
       /\ (pc[r] = "idle" /\ pc'[r] # "idle" /\ (~connected \/ ~client))
          => /\ pc'[r] = "cdone"
             /\ store' = store
             /\ ret'[r].get.called \/ ret'[r].set.called \/ ret'[r].clear.called
             /\ ret'[r].get.called => ret'[r].get.value = [isNull |-> TRUE]
             /\ ret'[r].set.called => ret'[r].set.value = FALSE
             /\ ret'[r].clear.called => ret'[r].clear.value = FALSE
       /\ (pc[r] = "idle" /\ pc'[r] # "idle" /\ connected /\ client)
          => pc'[r] \in {"cget", "cset", "cclear"}
       /\ (pc[r] = "cget" /\ pc'[r] # "cget" /\ cacheLog' = "Cache get error")
          => /\ pc'[r] = "cdone" /\ ret'[r].get.called
             /\ ret'[r].get.value = [isNull |-> TRUE]
             /\ store' = store
       /\ (pc[r] = "cset" /\ pc'[r] # "cset" /\ cacheLog' = "Cache set error")
          => /\ pc'[r] = "cdone" /\ ret'[r].set.value = FALSE
             /\ store' = store
       /\ (pc[r] = "cclear" /\ pc'[r] # "cclear" /\ cacheLog' = "Cache clear error")
          => /\ pc'[r] = "cdone" /\ ret'[r].clear.called
             /\ ret'[r].clear.value = FALSE
             /\ store' = store]_vars

\* C5 happens: a get has just come back absent from a failed store call
\* although the store holds a live entry under its key, and a clear called
\* while the cache was disconnected came back false.
C5_Witness ==
  \E r1, r2 \in Reqs :
    /\ cacheLog = "Cache get error"
    /\ pc[r1] = "cdone" /\ ret[r1].get.called /\ ret[r1].get.value.isNull
    /\ KeyPrefix \o targetUrl[r1] \in DOMAIN store
    /\ now < store[KeyPrefix \o targetUrl[r1]].expireAt
    /\ pc[r2] = "cdone" /\ ret[r2].clear.called /\ ~ret[r2].clear.value
    /\ calls[r2].clear = 1
    /\ client /\ ~connected

\* C6 as stated: whenever connect() fails or a get, set or clear call against
\* the store fails, connected is false afterwards.
C6_AsStated ==
  [][cacheLog' \in {"Failed to connect to Redis", "Cache get error", "Cache set error",
                    "Cache clear error"}
     => ~connected']_vars

\* C6, amended: connected is false after connect() has failed and after the
\* client's 'error' event; a get, set or clear call that fails against the
\* store leaves connected as it was, and no step of a cache operation ever
\* changes it; every operation called while connected is false returns at
\* once, absent for get and false for set and clear.
C6_DisabledByConnectionOnly ==
  [][/\ cacheLog' \in {"Failed to connect to Redis", "Redis connection error"}
          => ~connected'
     /\ cacheLog' \in {"Cache get error", "Cache set error", "Cache clear error"}
          => connected' = connected
     /\ \A r \in Reqs :
          /\ pc'[r] # pc[r] => connected' = connected
          /\ (pc[r] = "idle" /\ pc'[r] # "idle" /\ ~connected)
             => /\ pc'[r] = "cdone"
                /\ ret'[r].get.called => ret'[r].get.value = [isNull |-> TRUE]
                /\ ret'[r].set.called => ret'[r].set.value = FALSE
                /\ ret'[r].clear.called => ret'[r].clear.value = FALSE
                /\ store' = store
    ]_vars

\* C6 happens: a set has just failed against the store and the component is
\* still connected.
C6_Witness ==
  \E r \in Reqs :
    /\ cacheLog = "Cache set error"
    /\ pc[r] = "cdone" /\ ret[r].set.called /\ ~ret[r].set.value
    /\ client /\ connected

\* What render() hands back for an expected failure: the status and the
\* html given, no headers, redirected false, finalUrl the URL it was called
\* with.
C7_Synthetic(statusCode, html, url) ==
  [called |-> TRUE, threw |-> FALSE, error |-> [name |-> "", message |-> <<>>],
   html |-> html, statusCode |-> statusCode, headers |-> <<>>,
   redirected |-> FALSE, finalUrl |-> url]

\* C7: when render() has caught a TimeoutError it returns, once its page is
\* closed, the result with statusCode 504, the timeout page, empty headers,
\* redirected false and finalUrl the input URL; when it has caught an error
\* whose message contains net::ERR_ or NS_ERROR_ it returns the same shape
\* with statusCode 502 and the connection-error page; and whenever render()
\* raises, the error raised is of neither kind.
C7_ExpectedFailuresReturn ==
  [][\A r \in Reqs :
       /\ (pc[r] = "close" /\ pc'[r] # "close" /\ rstate[r].caught.name = "TimeoutError")
          => ret'[r].render =
               C7_Synthetic(504, "<html><body><h1>Timeout Error</h1><p>The page took too long to load.</p></body></html>",
                            targetUrl[r])
       /\ (pc[r] = "close" /\ pc'[r] # "close" /\ rstate[r].caught.name # "TimeoutError"
              /\ ("net::ERR_" \in Range(rstate[r].caught.message)
                    \/ "NS_ERROR_" \in Range(rstate[r].caught.message)))
          => ret'[r].render =
               C7_Synthetic(502, "<html><body><h1>Connection Error</h1><p>Could not connect to the requested page.</p></body></html>",
                            targetUrl[r])
       /\ (~ret[r].render.called /\ ret'[r].render.threw)
          => /\ ret'[r].render.error.name # "TimeoutError"
             /\ "net::ERR_" \notin Range(ret'[r].render.error.message)
             /\ "NS_ERROR_" \notin Range(ret'[r].render.error.message)
             /\ pc[r] = "close" => rstate[r].caught = ret'[r].render.error]_vars

\* C7 happens: one render has returned the synthetic 504 after a timeout and
\* another the synthetic 502 after a navigation error.
C7_Witness ==
  \E r1, r2 \in Reqs :
    /\ ret[r1].render.called /\ ~ret[r1].render.threw
    /\ ret[r1].render.statusCode = 504 /\ ret[r1].render.html = TimeoutHtml
    /\ ret[r2].render.called /\ ~ret[r2].render.threw
    /\ ret[r2].render.statusCode = 502 /\ ret[r2].render.html = ConnectionHtml
    /\ calls[r1].close = 1 /\ calls[r2].close = 1

\* The requests whose render() call has neither returned nor raised yet.
C8_InFlight == {r \in Reqs : pc[r] \in {"newPage", "goto", "close"}}

\* C8 as stated: the number of open pages equals the number of renders in
\* flight.
C8_AsStated == Cardinality(openPages) = Cardinality(C8_InFlight)

\* C8, amended: the open pages are exactly the pages of the renders in flight
\* that have opened theirs and not yet closed it -- a render waiting for
\* newPage() has none -- so there are at most as many as renders in flight
\* and none when no render is in flight; a render opens at most one page, and
\* once it has returned or raised, on whatever path, it has closed the page it
\* opened exactly once.
C8_PagesClosed ==
  /\ openPages = {r \in Reqs : pc[r] \in {"goto", "close"}}
  /\ openPages \subseteq C8_InFlight
  /\ Cardinality(openPages) <= Cardinality(C8_InFlight)
  /\ C8_InFlight = {} => openPages = {}
  /\ \A r \in Reqs :
       /\ calls[r].open <= 1
       /\ calls[r].close <= calls[r].open
       /\ r \in openPages <=> (calls[r].open = 1 /\ calls[r].close = 0)
       /\ pc[r] = "newPage" => calls[r].open = 0
       /\ ret[r].render.called => calls[r].close = calls[r].open

\* C8 happens: a render that raised after its page crashed and a render that
\* returned the synthetic 504 have each closed the one page they opened, and
\* no page is open.
C8_Witness ==
  \E r1, r2 \in Reqs :
    /\ ret[r1].render.threw /\ calls[r1].open = 1 /\ calls[r1].close = 1
    /\ ret[r2].render.statusCode = 504 /\ calls[r2].open = 1 /\ calls[r2].close = 1
    /\ openPages = {}

\* The request in slot r1 was answered with the synthetic 504 and the entry
\* it wrote is the live entry of its canonical URL.
C9_Cached504(r1) ==
  /\ pc[r1] = "done"
  /\ resp[r1].status = 504
  /\ resp[r1].body = [json |-> FALSE, html |-> TimeoutHtml]
  /\ ret[r1].set.value
  /\ KeyPrefix \o targetUrl[r1] \in DOMAIN store
  /\ store[KeyPrefix \o targetUrl[r1]].data = ret[r1].set.data
  /\ now < store[KeyPrefix \o targetUrl[r1]].expireAt

\* The step answers the request in slot r2 from the cache, with the status
\* and the body slot r1 was answered with, and without a render.
C9_SameFromCache(r1, r2) ==
  /\ pc'[r2] = "done"
  /\ Header(resp', r2, "X-Prerender-Cache") = "HIT"
  /\ resp'[r2].status = 504
  /\ resp'[r2].body = resp[r1].body
  /\ calls'[r2].render = 0 /\ calls'[r2].open = 0

\* C9 as stated, for the first step of a subsequent request: while the 504
\* entry of a canonical URL is live, a request that arrives for that URL is
\* not rendered anew; it is answered from the cache or waits for its lookup.
C9_AsStated ==
  [][\A r1, r2 \in Reqs :
       (r1 # r2 /\ C9_Cached504(r1) /\ pc[r2] = "idle" /\ pc'[r2] # "idle"
          /\ targetUrl'[r2] = targetUrl[r1])
       => /\ calls'[r2].render = 0
          /\ pc'[r2] = "get" \/ C9_SameFromCache(r1, r2)]_vars

\* C9, amended: a request whose navigation timed out is answered 504 with
\* the timeout page; and while the entry it wrote is the live entry of its
\* canonical URL, a request that arrives for that URL while the cache is
\* connected goes to the lookup without a render, and a lookup the store
\* answers ends in the answer from the cache with the same 504 and body and
\* no render.
C9_TimeoutIsCached ==
  [][\A r1, r2 \in Reqs :
       /\ (pc[r1] # "done" /\ pc'[r1] = "done" /\ rstate[r1].caught.name = "TimeoutError")
          => /\ resp'[r1].status = 504
             /\ resp'[r1].body = [json |-> FALSE, html |-> "<html><body><h1>Timeout Error</h1><p>The page took too long to load.</p></body></html>"]
       /\ (r1 # r2 /\ C9_Cached504(r1) /\ pc[r2] = "idle" /\ pc'[r2] # "idle"
              /\ targetUrl'[r2] = targetUrl[r1] /\ connected /\ client)
          => pc'[r2] = "get" /\ calls'[r2].render = 0
       /\ (r1 # r2 /\ C9_Cached504(r1) /\ pc[r2] = "get" /\ pc'[r2] # "get"
              /\ targetUrl[r2] = targetUrl[r1] /\ cacheLog' # "Cache get error")
          => C9_SameFromCache(r1, r2)]_vars

\* C9 happens: a request was answered with the synthetic 504 and a later
\* request for the same URL got the same 504 and body from the cache.
C9_Witness ==
  \E r1, r2 \in Reqs :
    /\ r1 # r2
    /\ pc[r1] = "done" /\ pc[r2] = "done"
    /\ targetUrl[r1] = targetUrl[r2]
    /\ ret[r1].render.statusCode = 504 /\ resp[r1].status = 504
    /\ Header(resp, r1, "X-Prerender-Cache") = "MISS"
    /\ Header(resp, r2, "X-Prerender-Cache") = "HIT"
    /\ resp[r2].status = 504 /\ resp[r2].body = resp[r1].body
    /\ resp[r2].body.html = TimeoutHtml
    /\ calls[r2].render = 0

\* The request in slot r1 was rendered and answered MISS, and the entry it
\* wrote is the live entry of its canonical URL: no later write, no expiry.
C10_FirstAnswered(r1) ==
  /\ pc[r1] = "done"
  /\ Header(resp, r1, "X-Prerender-Cache") = "MISS"
  /\ ret[r1].set.value
  /\ KeyPrefix \o targetUrl[r1] \in DOMAIN store
  /\ store[KeyPrefix \o targetUrl[r1]].data = ret[r1].set.data
  /\ now < store[KeyPrefix \o targetUrl[r1]].expireAt

\* C10: with the cache connected, a valid request goes to the lookup; a
\* lookup the store answers with nothing under the canonical URL leads to a
\* render, and the request answered after that render returned carries
\* X-Prerender-Cache: MISS; the same request, looked up while the entry the
\* first one wrote is still the live entry, is answered
\* X-Prerender-Cache: HIT with an age that is a number >= 0 and with the
\* status and the body of the first response.
C10_ColdMissThenHit ==
  [][\A r1, r2 \in Reqs :
       /\ (pc[r1] = "idle" /\ pc'[r1] # "idle" /\ connected /\ client
              /\ targetUrl'[r1] # <<>>)
          => pc'[r1] = "get"
       /\ (pc[r1] = "get" /\ pc'[r1] # "get" /\ cacheLog' # "Cache get error"
              /\ KeyPrefix \o targetUrl[r1] \notin DOMAIN store)
          => /\ ret'[r1].get.value.isNull
             /\ calls'[r1].render = 1
             /\ pc'[r1] = "newPage"
       /\ (pc[r1] # "done" /\ pc'[r1] = "done" /\ calls'[r1].render = 1
              /\ ~ret'[r1].render.threw)
          => Header(resp', r1, "X-Prerender-Cache") = "MISS"
       /\ (r1 # r2 /\ C10_FirstAnswered(r1) /\ req[r2] = req[r1]
              /\ pc[r2] = "get" /\ pc'[r2] # "get" /\ cacheLog' # "Cache get error")
          => /\ pc'[r2] = "done"
             /\ Header(resp', r2, "X-Prerender-Cache") = "HIT"
             /\ \E age \in 0..((MaxTicks * TickMs) \div 1000) :
                  Header(resp', r2, "X-Prerender-Cache-Age") = toString(age)
             /\ resp'[r2].status = resp[r1].status
             /\ resp'[r2].body = resp[r1].body
             /\ calls'[r2].render = 0]_vars

\* C10 happens: a request was rendered and answered MISS with the status 404
\* of a meta override, and the same request was then answered HIT with that
\* status and body.
C10_Witness ==
  \E r1, r2 \in Reqs :
    /\ r1 # r2 /\ req[r1] = req[r2]
    /\ pc[r1] = "done" /\ pc[r2] = "done"
    /\ Header(resp, r1, "X-Prerender-Cache") = "MISS"
    /\ Header(resp, r2, "X-Prerender-Cache") = "HIT"
    /\ Header(resp, r2, "X-Prerender-Cache-Age") = <<"0">>
    /\ resp[r1].status = 404
    /\ resp[r2].status = resp[r1].status /\ resp[r2].body = resp[r1].body

\* The robots directive the response of slot r in rs carries, under either
\* spelling of the header name; <<>> when it carries none.
C11_RobotsTag(rs, r) ==
  IF "x-robots-tag" \in DOMAIN rs[r].headers THEN rs[r].headers["x-robots-tag"]
  ELSE Header(rs, r, "X-Robots-Tag")

\* C11 as stated: a request answered after render() returned a result that
\* carries a robots directive has the header x-robots-tag with that
\* directive in its response, and a request answered from an entry that
\* carries the directive has the same header in its response.
C11_AsStated ==
  [][\A r \in Reqs :
       /\ (pc[r] # "done" /\ pc'[r] = "done" /\ ret'[r].render.called
             /\ ~ret'[r].render.threw
             /\ "x-robots-tag" \in DOMAIN ret'[r].render.headers)
          => C11_RobotsTag(resp', r) = ret'[r].render.headers["x-robots-tag"]
       /\ (pc[r] = "get" /\ pc'[r] = "done" /\ ~ret'[r].get.value.isNull
             /\ "x-robots-tag" \in DOMAIN ret'[r].get.value.headers)
          => C11_RobotsTag(resp', r) = ret'[r].get.value.headers["x-robots-tag"]]_vars

\* The prerender-status-code values that read as an integer from 100 to 599,
\* each with that integer: plain numbers, a number after blanks, and a
\* number followed by other text (parseInt reads the digits it starts with).
C12_InRange ==
  {<<<<"4", "0", "4">>, 404>>, <<<<"1", "0", "0">>, 100>>, <<<<"5", "9", "9">>, 599>>,
   <<<<" ", "4", "1", "0">>, 410>>, <<<<"4", "0", "4", "x">>, 404>>}

\* The values that are absent, are no number, or read as a number outside
\* 100..599 (99, 600, -404, and 40 for "40x").
C12_Ignored ==
  {<<>>, <<"9", "9">>, <<"6", "0", "0">>, <<"a", "b", "c">>, <<"-", "4", "0", "4">>,
   <<"4", "0", "x">>}

C13_Outcome(r) ==
  IF targetUrl[r] # <<>> THEN [valid |-> TRUE, url |-> targetUrl[r], error |-> <<>>]
  ELSE [valid |-> FALSE, url |-> <<>>, error |-> resp[r].body.error]

\* The raw input without its query string and fragment: the text before the
\* first '?' or '#'.
C13_Base(u) == substring(u, 0, firstOf(u, {"?", "#"}))

\* C13 as stated: two requests whose raw URLs differ only in their query
\* string or fragment get the same canonical URL, or are refused with the
\* same failure.
C13_AsStated ==
  \A r1, r2 \in Reqs :
    (pc[r1] # "idle" /\ pc[r2] # "idle"
       /\ extractUrl(req[r1]) # <<>> /\ extractUrl(req[r2]) # <<>>
       /\ C13_Base(extractUrl(req[r1])) = C13_Base(extractUrl(req[r2])))
    => C13_Outcome(r1) = C13_Outcome(r2)

\* C14 as stated: the canonical URL validateUrl returned for an accepted
\* request is itself accepted by validateUrl, which returns it unchanged.
C14_AsStated ==
  \A r \in Reqs :
    targetUrl[r] # <<>>
    => /\ validateUrl(allowedDomains, targetUrl[r]).valid
       /\ validateUrl(allowedDomains, targetUrl[r]).url = targetUrl[r]

\* The requests whose URL has a scheme other than http and https: ftp and
\* data URLs, given as query parameter, as header and after /render/.
C15_OtherScheme ==
  {ByQuery(UrlFtp), ByHeader(UrlFtp), ByHeader(UrlFtpQ), ByRenderPath(UrlFtp),
   ByQuery(UrlData)}

C15_Web(url) ==
  startsWith(url, HTTP \o COLON \o SS) \/ startsWith(url, HTTPS \o COLON \o SS)

\* C15: the URL of every request for which cache.get, render() or cache.set
\* was called starts with http:// or https://, cache.set was called with that
\* URL, and every key of the store is the prefix followed by such a URL; a
\* request whose URL has another scheme is answered 400 with
\* 'Only HTTP and HTTPS protocols are allowed' and none of the three is ever
\* called for it.
C15_OnlyWebSchemes ==
  /\ \A r \in Reqs :
       (calls[r].get > 0 \/ calls[r].render > 0 \/ calls[r].set > 0)
       => /\ C15_Web(targetUrl[r])
          /\ ret[r].set.called => ret[r].set.args.url = targetUrl[r]
  /\ \A key \in DOMAIN store :
       /\ startsWith(key, KeyPrefix)
       /\ C15_Web(substringFrom(key, Len(KeyPrefix)))
  /\ \A r \in Reqs :
       req[r] \in C15_OtherScheme
       => /\ pc[r] = "done" /\ resp[r].status = 400
          /\ resp[r].body = [json |-> TRUE, error |-> ErrProtocol, hint |-> UsageHint]
          /\ calls[r].get = 0 /\ calls[r].render = 0 /\ calls[r].set = 0
          /\ calls[r].open = 0

\* C15 happens: an ftp URL was refused, and an http URL went through
\* cache.get, render() and cache.set into the store.
C15_Witness ==
  \E r1, r2 \in Reqs :
    /\ req[r1] = ByRenderPath(UrlFtp) /\ pc[r1] = "done" /\ resp[r1].status = 400
    /\ pc[r2] = "done" /\ startsWith(targetUrl[r2], HTTP \o COLON \o SS)
    /\ calls[r2].get = 1 /\ calls[r2].render = 1 /\ calls[r2].set = 1
    /\ ret[r2].set.value
    /\ KeyPrefix \o targetUrl[r2] \in DOMAIN store

\* Requests for the hosts e.c, s.e.c, v.c and ne.c, each with its host name.
C16_Hosts ==
  {<<ByQuery(UrlC), HostE>>, <<ByQuery(UrlSub), HostSub>>, <<ByQuery(UrlEvil), HostEvil>>,
   <<ByQuery(UrlNotE), HostNotE>>}

\* The host name is an allowed domain, or a name, a dot and an allowed domain.
C16_Allowed(domains, hostname) ==
  \E i \in 1..Len(domains) :
    \/ hostname = domains[i]
    \/ \E sub \in {SubSeq(hostname, 1, n) : n \in 1..Len(hostname)} :
         hostname = sub \o <<".">> \o domains[i]

\* C16: under an allowlist that is not empty a request is accepted exactly
\* when its host name is an allowed domain or ends with a dot and an allowed
\* domain: with e.c on the list, e.c and s.e.c are accepted and v.c and ne.c
\* are refused, with 400 and an error that names the host; with no allowlist
\* every one of them is accepted.
C16_Allowlist ==
  \A r \in Reqs : \A c \in C16_Hosts :
    req[r] = c[1]
    => /\ (allowedDomains = <<>> \/ C16_Allowed(allowedDomains, c[2]))
          => /\ targetUrl[r] = extractUrl(c[1])
             /\ calls[r].get = 1
       /\ (allowedDomains # <<>> /\ ~C16_Allowed(allowedDomains, c[2]))
          => /\ targetUrl[r] = <<>> /\ pc[r] = "done" /\ resp[r].status = 400
             /\ resp[r].body.error.text = "Domain ${hostname} is not in the allowed domains list"
             /\ resp[r].body.error.arg = c[2]
             /\ calls[r].get = 0 /\ calls[r].render = 0
       /\ HostE \in Range(allowedDomains)
          => (targetUrl[r] # <<>>) = (c[2] \in {HostE, HostSub})

\* C16 happens: under an allowlist of two domains the request for s.e.c was
\* accepted and the one for ne.c was refused.
C16_Witness ==
  \E r1, r2 \in Reqs :
    /\ Len(allowedDomains) = 2
    /\ req[r1] = ByQuery(UrlSub) /\ targetUrl[r1] = UrlSub
    /\ req[r2] = ByQuery(UrlNotE) /\ resp[r2].status = 400
    /\ resp[r2].body.error.arg = HostNotE

\* Requests that carry URLs in several places at once, each with the URL
\* that comes first in the order query parameter, header, rest of the path
\* after /render/, whole path that starts with http:// or https://; <<>> when
\* the request carries none.
C17_Cases ==
  {<<Request(UrlA, UrlB, RenderPrefix \o UrlC), UrlA>>,
   <<Request(<<>>, UrlB, RenderPrefix \o UrlC), UrlB>>,
   <<Request(<<>>, <<>>, RenderPrefix \o UrlC), UrlC>>,
   <<Request(<<>>, <<>>, SLASH \o UrlD), UrlD>>,
   <<Request(UrlA, <<>>, SLASH \o UrlD), UrlA>>,
   <<Request(<<>>, UrlB, SLASH \o UrlD), UrlB>>,
   <<Request(<<>>, <<>>, RenderPrefix \o UrlFtp), UrlFtp>>,
   <<Request(<<>>, <<>>, SLASH), <<>>>>,
   <<Request(<<>>, <<>>, <<"/", "x">>), <<>>>>,
   <<Request(<<>>, <<>>, RenderPrefix), <<>>>>,
   <<Request(<<>>, <<>>, SLASH \o UrlFtp), <<>>>>}

\* C17: extractUrl returns the first candidate in the order query
\* parameter, X-Prerender-URL header, rest of the path after /render/, whole
\* path without its slash when that starts with http:// or https://: the
\* request is validated as that URL; when there is no candidate the request
\* is answered 400 with 'No URL provided'.
C17_Precedence ==
  \A r \in Reqs : \A c \in C17_Cases :
    req[r] = c[1]
    => /\ extractUrl(req[r]) = c[2]
       /\ c[2] = <<>>
            => /\ pc[r] = "done" /\ resp[r].status = 400
               /\ resp[r].body = [json |-> TRUE, error |-> ErrNoUrl, hint |-> UsageHint]
       /\ c[2] \in {UrlA, UrlB, UrlC, UrlD} => targetUrl[r] = c[2]
       /\ c[2] = UrlFtp => resp[r].body.error = ErrProtocol

\* C17 happens: a request with a query parameter, a header and a /render/
\* path was taken by its query parameter, and a request with a header and a
\* URL as its path by its header.
C17_Witness ==
  \E r1, r2 \in Reqs :
    /\ req[r1] = Request(UrlA, UrlB, RenderPrefix \o UrlC) /\ targetUrl[r1] = UrlA
    /\ req[r2] = Request(<<>>, UrlB, SLASH \o UrlD) /\ targetUrl[r2] = UrlB

\* C18: requests for one canonical URL are not coalesced.  While another
\* request for the same canonical URL is past its lookup and has not written
\* yet, a request whose lookup ends with nothing in the store under that URL
\* gets a miss and starts its own render; when its render returns it calls
\* cache.set itself; and when the store takes its write the entry is the one
\* it wrote.  So each of the requests renders once and writes once.
C18_NotCoalesced ==
  [][\A r1, r2 \in Reqs :
       (r1 # r2 /\ targetUrl[r1] # <<>> /\ targetUrl[r1] = targetUrl[r2]
          /\ pc[r2] \in {"newPage", "goto", "close", "set"}
          /\ KeyPrefix \o targetUrl[r1] \notin DOMAIN store)
       => /\ (pc[r1] = "get" /\ pc'[r1] # "get")
             => /\ ret'[r1].get.value.isNull
                /\ pc'[r1] = "newPage"
                /\ calls'[r1].render = 1 /\ calls[r2].render = 1
          /\ (pc[r1] = "close" /\ pc'[r1] # "close" /\ ~rstate[r1].pending.threw)
             => /\ calls'[r1].set = 1 /\ calls'[r1].render = 1
                /\ ret'[r1].set.args.url = targetUrl[r1]
          /\ (pc[r1] = "set" /\ pc'[r1] # "set" /\ cacheLog' # "Cache set error")
             => /\ KeyPrefix \o targetUrl[r1] \in DOMAIN store'
                /\ store'[KeyPrefix \o targetUrl[r1]].data = ret[r1].set.data
                /\ ret'[r1].set.value]_vars

\* C18 happens: two requests for one canonical URL have both missed, both
\* rendered, and both wait for their own write while the store is still empty.
C18_Witness ==
  \E r1, r2 \in Reqs :
    /\ r1 # r2 /\ targetUrl[r1] = targetUrl[r2]
    /\ pc[r1] = "set" /\ pc[r2] = "set"
    /\ ret[r1].get.value.isNull /\ ret[r2].get.value.isNull
    /\ calls[r1].render = 1 /\ calls[r2].render = 1
    /\ calls[r1].set = 1 /\ calls[r2].set = 1
    /\ DOMAIN store = {}

\* The write of slot r has just been taken by the store.
C19_Wrote(r) == pc[r] = "set" /\ pc'[r] # "set" /\ cacheLog' # "Cache set error"

\* C19: the store holds one entry per key and the key of a request is the
\* prefix followed by its canonical URL, so there is at most one entry per
\* canonical URL.  When the store takes a write, the entry under its key is
\* from then on exactly what that set sent: its html, status code and headers
\* and nothing of the entry that was there before, expiring one TTL after
\* the write.  No other step changes an entry; an entry only disappears when
\* its time to live is over.
C19_LastWriterWins ==
  [][/\ \A r \in Reqs :
          targetUrl[r] # <<>> => cacheKey(targetUrl[r]) = KeyPrefix \o targetUrl[r]
     /\ \A r \in Reqs :
          C19_Wrote(r)
          => LET key == KeyPrefix \o targetUrl[r]
             IN  /\ DOMAIN store' = DOMAIN store \cup {key}
                 /\ store'[key] = [data |-> ret[r].set.data,
                                   expireAt |-> now + cacheTTL * 1000]
                 /\ JSONparse(store'[key].data).html = ret[r].set.args.html
                 /\ JSONparse(store'[key].data).statusCode = ret[r].set.args.statusCode
                 /\ JSONparse(store'[key].data).headers = ret[r].set.args.headers
                 /\ \A k \in DOMAIN store \ {key} : store'[k] = store[k]
     /\ (\A r \in Reqs : ~C19_Wrote(r))
          => /\ DOMAIN store' \subseteq DOMAIN store
             /\ \A k \in DOMAIN store' : store'[k] = store[k]
             /\ \A k \in DOMAIN store \ DOMAIN store' :
                  ticks' = ticks + 1 /\ store[k].expireAt <= ticks' * TickMs]_vars

\* C19 happens: two requests for one canonical URL have both written, with
\* different snapshots, and the store holds the one of the second: the page
\* without a robots directive has replaced the one with it, headers included.
C19_Witness ==
  \E r1, r2 \in Reqs :
    /\ r1 # r2 /\ targetUrl[r1] = targetUrl[r2] /\ ticks = 0
    /\ pc[r1] = "done" /\ pc[r2] = "done"
    /\ ret[r1].set.value /\ ret[r2].set.value
    /\ ret[r1].set.args.statusCode = 404
    /\ "x-robots-tag" \in DOMAIN ret[r1].set.args.headers
    /\ ret[r2].set.args.statusCode = 200
    /\ store[KeyPrefix \o targetUrl[r1]].data = ret[r2].set.data
    /\ "x-robots-tag" \notin DOMAIN JSONparse(store[KeyPrefix \o targetUrl[r1]].data).headers

\* C20: with the cache connected, what set() sends to the store carries the
\* time of the call as its timestamp, and a set the store has taken leaves
\* exactly that under the key of its URL; a get of the same URL that the
\* store answers while that entry is there and has not expired returns the
\* html, the status code and the headers the set was called with, and that
\* timestamp, which is not in the future.
C20_RoundTrip ==
  [][\A r1, r2 \in Reqs :
       /\ (pc[r2] = "idle" /\ pc'[r2] = "cset")
          => /\ connected /\ client
             /\ member(ret'[r2].set.data, "timestamp") = now
             /\ rstate'[r2].setex.data = ret'[r2].set.data
             /\ rstate'[r2].setex.key = KeyPrefix \o ret'[r2].set.args.url
       /\ (pc[r2] = "cset" /\ pc'[r2] = "cdone" /\ ret'[r2].set.value)
          => /\ KeyPrefix \o ret[r2].set.args.url \in DOMAIN store'
             /\ store'[KeyPrefix \o ret[r2].set.args.url].data = ret[r2].set.data
       /\ (pc[r2] = "cdone" /\ ret[r2].set.value
             /\ pc[r1] = "cget" /\ pc'[r1] = "cdone" /\ cacheLog' # "Cache get error"
             /\ targetUrl[r1] = ret[r2].set.args.url
             /\ KeyPrefix \o targetUrl[r1] \in DOMAIN store
             /\ store[KeyPrefix \o targetUrl[r1]].data = ret[r2].set.data
             /\ now < store[KeyPrefix \o targetUrl[r1]].expireAt)
          => /\ ret'[r1].get.value =
                  [isNull |-> FALSE,
                   html |-> ret[r2].set.args.html,
                   statusCode |-> ret[r2].set.args.statusCode,
                   headers |-> ret[r2].set.args.headers,
                   timestamp |-> member(ret[r2].set.data, "timestamp")]
             /\ ret'[r1].get.value.timestamp <= now]_vars

\* C20 happens: the snapshot with status 404 and a robots header was set and
\* the get of its URL has returned it, headers included.
C20_Witness ==
  \E r1, r2 \in Reqs :
    /\ pc[r2] = "cdone" /\ ret[r2].set.value /\ ret[r2].set.args.url = UrlB
    /\ pc[r1] = "cdone" /\ targetUrl[r1] = UrlB /\ ret[r1].get.called
    /\ ~ret[r1].get.value.isNull
    /\ ret[r1].get.value.statusCode = 404
    /\ ret[r1].get.value.headers = RobotsHeaders
    /\ ret[r1].get.value.html = ret[r2].set.args.html
    /\ store[KeyPrefix \o UrlB].data = ret[r2].set.data

\* The awaits a request passes through, each with the ones that may follow.
C21_Order ==
  {<<"idle", "get">>, <<"idle", "newPage">>, <<"idle", "done">>,
   <<"get", "newPage">>, <<"get", "done">>,
   <<"newPage", "goto">>, <<"newPage", "set">>, <<"newPage", "done">>,
   <<"goto", "close">>, <<"close", "set">>, <<"close", "done">>, <<"set", "done">>}

\* C21: within one request the steps come in order.  The lookup is only
\* started for a request that validation has passed; the render is only
\* started once the lookup has returned absent; cache.set is only called once
\* render() has returned and closed its page; and the MISS response is only
\* sent in the step in which the write attempt ends: when the store call
\* returns, or at once when the cache is disabled.  Nothing is sent while
\* the request waits for the lookup, the render or the write.
C21_StrictOrder ==
  [][\A r \in Reqs :
       /\ pc'[r] # pc[r] => <<pc[r], pc'[r]>> \in C21_Order
       /\ (calls[r].get = 0 /\ calls'[r].get = 1)
          => /\ pc[r] = "idle" /\ targetUrl'[r] # <<>>
             /\ Header(resp', r, "X-Prerender-Normalized-URL") = targetUrl'[r]
       /\ (calls[r].render = 0 /\ calls'[r].render = 1)
          => /\ ret'[r].get.called /\ ret'[r].get.value.isNull
             /\ pc'[r] # "get" /\ calls'[r].get = 1
       /\ (calls[r].set = 0 /\ calls'[r].set = 1)
          => /\ ret'[r].render.called /\ ~ret'[r].render.threw
             /\ r \notin openPages' /\ calls'[r].close = calls'[r].open
             /\ pc[r] \in {"newPage", "close"}
       /\ (pc[r] # "done" /\ pc'[r] = "done"
             /\ Header(resp', r, "X-Prerender-Cache") = "MISS")
          => /\ ret'[r].set.called /\ calls'[r].set = 1
             /\ pc[r] = "set" \/ disabled(connected, client)
             /\ rstate'[r].setex.key = <<>>
       /\ pc'[r] \in {"get", "newPage", "goto", "close", "set"} => ~resp'[r].sent]_vars

\* C21 happens: a request has gone through lookup, render and write and has
\* been answered MISS with its entry in the store.
C21_Witness ==
  \E r \in Reqs :
    /\ pc[r] = "done" /\ Header(resp, r, "X-Prerender-Cache") = "MISS"
    /\ calls[r].get = 1 /\ ret[r].get.called /\ calls[r].render = 1 /\ calls[r].open = 1
    /\ calls[r].close = 1 /\ calls[r].set = 1 /\ ret[r].set.value
    /\ KeyPrefix \o targetUrl[r] \in DOMAIN store
    /\ store[KeyPrefix \o targetUrl[r]].data = ret[r].set.data

\* C22: no step is ever tried again.  For every request cache.get,
\* render() and cache.set are each called once at most, a page is opened
\* once at most, and a request that has been answered makes no further call
\* -- whether the result was a page, the synthetic 502 or 504, or an error.
C22_NoRetry ==
  [][\A r \in Reqs :
       /\ calls'[r].get <= 1 /\ calls'[r].render <= 1 /\ calls'[r].set <= 1
       /\ calls'[r].open <= 1 /\ calls'[r].close <= 1
       /\ pc[r] = "done" => (pc'[r] = "done" /\ calls'[r] = calls[r])
       /\ (pc[r] # "done" /\ pc'[r] = "done" /\ ret'[r].render.called)
          => /\ calls'[r].render = 1
             /\ ret'[r].render.threw => (resp'[r].status = 500 /\ calls'[r].set = 0)
             /\ ~ret'[r].render.threw => resp'[r].status = ret'[r].render.statusCode]_vars

\* C22 happens: one request has been answered with the synthetic 502 after
\* one render and one write, and another with 500 after one render that
\* raised, with no write.
C22_Witness ==
  \E r1, r2 \in Reqs :
    /\ pc[r1] = "done" /\ resp[r1].status = 502 /\ resp[r1].body.html = ConnectionHtml
    /\ calls[r1].get = 1 /\ calls[r1].render = 1 /\ calls[r1].set = 1
    /\ pc[r2] = "done" /\ resp[r2].status = 500 /\ ret[r2].render.threw
    /\ calls[r2].get = 1 /\ calls[r2].render = 1 /\ calls[r2].set = 0

\* The key of the request in slot r.
C23_Key(r) == KeyPrefix \o targetUrl[r]

\* C23 as stated: the age a HIT reports never exceeds the TTL.
C23_AsStated ==
  \A r \in Reqs :
    (pc[r] = "done" /\ Header(resp, r, "X-Prerender-Cache") = "HIT")
    => Header(resp, r, "X-Prerender-Cache-Age") \in {toString(a) : a \in 0..cacheTTL}

\* C23: the TTL of an entry counts from the moment the store takes the
\* write, while its age counts from the moment set() was called.  The store
\* keeps a written entry for exactly cacheTTL seconds from the write and
\* drops it by the clock alone; a HIT is only served from an entry the store
\* took less than the TTL ago, with the age counted from the timestamp in
\* the entry; and a lookup that finds the entry expired or absent goes on to
\* render again.
C23_ExpiresByTtl ==
  [][\A r \in Reqs :
       /\ (pc[r] = "set" /\ pc'[r] = "done" /\ ret'[r].set.value)
          => /\ C23_Key(r) \in DOMAIN store'
             /\ store'[C23_Key(r)].expireAt = now + cacheTTL * 1000
             /\ member(store'[C23_Key(r)].data, "timestamp") <= now
       /\ (pc[r] = "get" /\ pc'[r] = "done")
          => /\ Header(resp', r, "X-Prerender-Cache") = "HIT"
             /\ C23_Key(r) \in DOMAIN store
             /\ now - (store[C23_Key(r)].expireAt - cacheTTL * 1000) < cacheTTL * 1000
             /\ Header(resp', r, "X-Prerender-Cache-Age")
                  = toString((now - member(store[C23_Key(r)].data, "timestamp")) \div 1000)
       /\ (pc[r] = "get" /\ pc'[r] # "get"
             /\ (C23_Key(r) \notin DOMAIN store \/ now >= store[C23_Key(r)].expireAt))
          => (pc'[r] = "newPage" /\ calls'[r].render = 1 /\ ~resp'[r].sent)
       /\ \A k \in DOMAIN store :
            IF now' < store[k].expireAt
            THEN k \in DOMAIN store' /\ store'[k].expireAt >= store[k].expireAt
            ELSE k \notin DOMAIN store' /\ ticks' = ticks + 1]_vars

\* C23 happens: the entry of the first request has expired and the second
\* request for the same URL was answered MISS after a render of its own.
C23_Witness ==
  \E r1, r2 \in Reqs :
    /\ r1 # r2 /\ targetUrl[r1] = targetUrl[r2]
    /\ pc[r1] = "done" /\ ret[r1].set.value
    /\ pc[r2] = "done" /\ Header(resp, r2, "X-Prerender-Cache") = "MISS"
    /\ calls[r2].render = 1 /\ ret[r2].set.value
    /\ member(ret[r2].set.data, "timestamp")
         >= member(ret[r1].set.data, "timestamp") + cacheTTL * 1000

\* Response r carries header h.
Has(r, h) == h \in DOMAIN resp[r].headers

\* C24: in every result render() returns, redirected is true exactly when
\* finalUrl differs from the URL render() was given; the synthetic 502 and
\* 504 have redirected false and finalUrl equal to that URL; and a MISS
\* response carries X-Prerender-Redirected: true and X-Prerender-Final-URL
\* (holding finalUrl) when redirected is true and neither of them otherwise.
\* No other response carries either header.
C24_RedirectReported ==
  \A r \in Reqs :
    /\ (ret[r].render.called /\ ~ret[r].render.threw)
       => /\ ret[r].render.redirected <=> (ret[r].render.finalUrl # targetUrl[r])
          /\ ret[r].render.html \in {TimeoutHtml, ConnectionHtml}
             => /\ ret[r].render.statusCode \in {502, 504}
                /\ ~ret[r].render.redirected /\ ret[r].render.finalUrl = targetUrl[r]
    /\ (pc[r] = "done" /\ Has(r, "X-Prerender-Cache")
          /\ resp[r].headers["X-Prerender-Cache"] = "MISS")
       => IF ret[r].render.redirected
          THEN /\ Has(r, "X-Prerender-Redirected") /\ Has(r, "X-Prerender-Final-URL")
               /\ resp[r].headers["X-Prerender-Redirected"] = "true"
               /\ resp[r].headers["X-Prerender-Final-URL"] = ret[r].render.finalUrl
          ELSE ~Has(r, "X-Prerender-Redirected") /\ ~Has(r, "X-Prerender-Final-URL")
    /\ (Has(r, "X-Prerender-Redirected") \/ Has(r, "X-Prerender-Final-URL"))
       => /\ pc[r] = "done" /\ Has(r, "X-Prerender-Cache")
          /\ resp[r].headers["X-Prerender-Cache"] = "MISS"

\* C24 happens: one request was redirected and its MISS response says so,
\* another got the synthetic 504 and its response carries neither header.
C24_Witness ==
  \E r1, r2 \in Reqs :
    /\ pc[r1] = "done" /\ ret[r1].render.redirected
    /\ ret[r1].render.finalUrl = targetUrl[r1] \o <<"/">>
    /\ Has(r1, "X-Prerender-Final-URL")
    /\ resp[r1].headers["X-Prerender-Final-URL"] = targetUrl[r1] \o <<"/">>
    /\ pc[r2] = "done" /\ resp[r2].status = 504 /\ ret[r2].render.called
    /\ ~ret[r2].render.redirected /\ ~Has(r2, "X-Prerender-Redirected")

\* C25: a response carries X-Prerender-Cache: HIT exactly when it was served
\* from the entry the lookup returned, and X-Prerender-Cache: MISS exactly
\* when it carries the result of a render made for this request;
\* X-Prerender-Cache-Age is on the HIT responses and on no other,
\* X-Prerender-Render-Time on the MISS responses and on no other; the 400 of
\* a refused request and the 500 of a failed render carry none of the three.
C25_DiagnosticHeaders ==
  \A r \in Reqs :
    /\ ~resp[r].sent
       => /\ ~Has(r, "X-Prerender-Cache") /\ ~Has(r, "X-Prerender-Cache-Age")
          /\ ~Has(r, "X-Prerender-Render-Time")
    /\ pc[r] = "done"
       => /\ resp[r].sent
          /\ Has(r, "X-Prerender-Cache")
             => resp[r].headers["X-Prerender-Cache"] \in {"HIT", "MISS"}
          /\ (Has(r, "X-Prerender-Cache") /\ resp[r].headers["X-Prerender-Cache"] = "HIT")
             <=> (ret[r].get.called /\ ~ret[r].get.value.isNull)
          /\ (Has(r, "X-Prerender-Cache") /\ resp[r].headers["X-Prerender-Cache"] = "MISS")
             <=> (ret[r].render.called /\ ~ret[r].render.threw)
          /\ (ret[r].get.called /\ ~ret[r].get.value.isNull)
             => (~ret[r].render.called /\ resp[r].body = HtmlBody(ret[r].get.value.html))
          /\ Has(r, "X-Prerender-Cache-Age")
             <=> (ret[r].get.called /\ ~ret[r].get.value.isNull)
          /\ Has(r, "X-Prerender-Render-Time")
             <=> (ret[r].render.called /\ ~ret[r].render.threw)
          /\ resp[r].body.json
             => /\ resp[r].status \in {400, 500}
                /\ ~Has(r, "X-Prerender-Cache") /\ ~Has(r, "X-Prerender-Cache-Age")
                /\ ~Has(r, "X-Prerender-Render-Time")
          /\ (targetUrl[r] = <<>> \/ ret[r].render.threw) => resp[r].body.json

\* C25 happens: of two requests for one URL the first was answered MISS with
\* its render time and the second HIT with its age.
C25_Witness ==
  \E r1, r2 \in Reqs :
    /\ pc[r1] = "done" /\ pc[r2] = "done" /\ targetUrl[r1] = targetUrl[r2]
    /\ ret[r1].render.called /\ ~ret[r2].render.called
    /\ Has(r1, "X-Prerender-Render-Time") /\ ~Has(r1, "X-Prerender-Cache-Age")
    /\ Has(r2, "X-Prerender-Cache-Age") /\ ~Has(r2, "X-Prerender-Render-Time")

\* C26 as stated: every response of the endpoint carries
\* X-Prerender-Normalized-URL.
C26_AsStated ==
  \A r \in Reqs : pc[r] = "done" => Has(r, "X-Prerender-Normalized-URL")

\* C26: X-Prerender-Normalized-URL is on every response to a request that
\* validation has passed -- HIT, MISS and the 500 of a failed render -- and
\* holds the canonical URL validateUrl returned; the 400 that refuses a
\* request carries no header of this service.
C26_NormalizedUrlHeader ==
  \A r \in Reqs :
    pc[r] # "idle"
    => LET v == validateUrl(allowedDomains, extractUrl(req[r]))
       IN  IF v.valid
           THEN /\ Has(r, "X-Prerender-Normalized-URL")
                /\ resp[r].headers["X-Prerender-Normalized-URL"] = v.url
                /\ targetUrl[r] = v.url
                /\ pc[r] = "done" => resp[r].status # 400
           ELSE /\ pc[r] = "done" /\ resp[r].status = 400
                /\ DOMAIN resp[r].headers = {}

\* C26 happens: a request that passed validation has been answered 500 with
\* the header, and a refused one 400 without it.
C26_Witness ==
  \E r1, r2 \in Reqs :
    /\ pc[r1] = "done" /\ resp[r1].status = 500 /\ resp[r1].body.json
    /\ Has(r1, "X-Prerender-Normalized-URL")
    /\ resp[r1].headers["X-Prerender-Normalized-URL"] = UrlA
    /\ pc[r2] = "done" /\ resp[r2].status = 400 /\ ~Has(r2, "X-Prerender-Normalized-URL")

C29_KeyIsCanonicalUrl ==
  /\ \A r \in Reqs :
       targetUrl[r] # <<>>
       => /\ normalizeUrl(targetUrl[r]) = targetUrl[r]
          /\ cacheKey(targetUrl[r]) = KeyPrefix \o targetUrl[r]
  /\ \A r1, r2 \in Reqs :
       (targetUrl[r1] # <<>> /\ targetUrl[r2] # <<>>)
       => ((cacheKey(targetUrl[r1]) = cacheKey(targetUrl[r2]))
             <=> (targetUrl[r1] = targetUrl[r2]))
  /\ \A k \in DOMAIN store :
       \E r \in Reqs : ret[r].set.value /\ k = KeyPrefix \o targetUrl[r]

\* C29 happens: two requests with different canonical URLs have been
\* rendered and the store holds one entry under each prefixed URL.
C29_Witness ==
  \E r1, r2 \in Reqs :
    /\ targetUrl[r1] = UrlA /\ targetUrl[r2] = UrlEnc
    /\ pc[r1] = "done" /\ pc[r2] = "done"
    /\ DOMAIN store = {KeyPrefix \o UrlA, KeyPrefix \o UrlEnc}

\* The URL as validateUrl parses it: decoded once, or as it came when
\* decodeURIComponent throws.
C30_Decoded(u) == IF decodeURIComponent(u).threw THEN u ELSE decodeURIComponent(u).value

\* The text before the first '&'.
C30_UpToAmp(s) == IF "&" \in Range(s) THEN substring(s, 0, indexOf(s, "&")) ELSE s

\* Requests with '&' in the path, written out or escaped, and the canonical
\* URL of each.
C30_Cases ==
  {<<ByHeader(UrlAmp), UrlA>>, <<ByQuery(UrlAmpY), UrlA>>, <<ByRenderPath(UrlPctAmp), UrlA>>,
   <<ByHeader(UrlA), UrlA>>, <<ByHeader(UrlPctAmpBadQ), UrlPctAmp>>,
   <<ByHeader(UrlTwice), UrlPctAmp>>}

C31_AsStated ==
  /\ \A r \in Reqs :
       /\ ret[r].set.called => ret[r].set.args.statusCode \in 100..599
       /\ (pc[r] = "done" /\ Has(r, "X-Prerender-Cache")) => resp[r].status \in 100..599
  /\ \A k \in DOMAIN store : member(store[k].data, "statusCode") \in 100..599

\* C32: a GET for /health is answered at once with 200 and status 'ok'; the
\* cache field is 'connected' when CacheManager.connected is true at that
\* moment and 'disabled' when it is false; no validation, cache call or
\* render is made for it and the store, the pages and the flag are as before.
C32_Health ==
  [][\A r \in Reqs :
       (pc[r] = "idle" /\ pc'[r] # "idle"
          /\ req'[r].method = "GET" /\ req'[r].path = HealthPath)
       => /\ pc'[r] = "done" /\ resp'[r].sent /\ resp'[r].status = 200
          /\ resp'[r].body.status = "ok"
          /\ resp'[r].body.cache = IF connected THEN "connected" ELSE "disabled"
          /\ calls'[r] = NoCalls /\ ret'[r] = NoRet /\ targetUrl'[r] = <<>>
          /\ store' = store /\ openPages' = openPages /\ connected' = connected]_vars

\* C32 happens: /health has been answered 'disabled' and, after the client
\* connected, 'connected'.
C32_Witness ==
  \E r1, r2 \in Reqs :
    /\ req[r1].method = "GET" /\ req[r1].path = HealthPath /\ pc[r1] = "done"
    /\ resp[r1].body.cache = "disabled"
    /\ req[r2].method = "GET" /\ req[r2].path = HealthPath /\ pc[r2] = "done"
    /\ resp[r2].body.cache = "connected" /\ connected

\* The order of the phases of the process.
C33_Order ==
  {<<"constructed", "connecting">>, <<"connecting", "launching">>,
   <<"launching", "serving">>, <<"launching", "exited">>, <<"serving", "closing">>,
   <<"closing", "quitting">>, <<"quitting", "exited">>}

\* C33: the process goes through its phases in order.  It listens only
\* after connect() has ended, resolved or rejected, and the browser has been
\* launched; a rejected connect leads on to the launch with the cache
\* disabled; a rejected launch ends the process with no request ever taken;
\* no request is taken before the process listens or after it has exited;
\* and after a signal the browser is closed first, then the client quits and
\* the flag is cleared, then the process exits.
C33_LifeCycle ==
  [][/\ phase' # phase => <<phase, phase'>> \in C33_Order
     /\ (phase = "connecting" /\ phase' = "launching")
        => (client' /\ (cacheLog' = "Failed to connect to Redis" => ~connected'))
     /\ (phase # "serving" /\ phase' = "serving") => (browser' /\ client')
     /\ (phase = "launching" /\ phase' = "exited")
        => (~browser' /\ \A r \in Reqs : pc'[r] = "idle")
     /\ (phase = "closing" /\ phase' = "quitting") => (~browser' /\ client')
     /\ (phase = "quitting" /\ phase' = "exited") => (~browser' /\ ~connected')
     /\ \A r \in Reqs :
          /\ (pc[r] = "idle" /\ pc'[r] # "idle")
             => phase \in {"serving", "closing", "quitting"}
          /\ phase \in {"constructed", "connecting", "launching"} => pc[r] = "idle"
          /\ phase = "exited" => pc'[r] = pc[r]]_vars

\* C33 happens: the process served a request as a MISS whose write the cache
\* did not take, took a signal, closed the browser, quit the client and
\* exited.
C33_Witness ==
  /\ phase = "exited" /\ ~browser /\ ~connected /\ client
  /\ \E r \in Reqs :
       /\ pc[r] = "done" /\ Has(r, "X-Prerender-Cache")
       /\ resp[r].headers["X-Prerender-Cache"] = "MISS"
       /\ calls[r].get = 1 /\ ~ret[r].set.value /\ calls[r].render = 1

\* C34: whatever the interleaving, the status and the body of a HIT response
\* are the statusCode and the html of a result that render() returned to
\* another request for the same canonical URL, which that request handed to
\* cache.set; and the status and body of a MISS response are those of the
\* render made for the request itself.  No response carries what was
\* rendered for another canonical URL.
C34_OwnContent ==
  \A r \in Reqs :
    (pc[r] = "done" /\ Has(r, "X-Prerender-Cache"))
    => IF resp[r].headers["X-Prerender-Cache"] = "HIT"
       THEN \E r2 \in Reqs \ {r} :
              /\ targetUrl[r2] = targetUrl[r]
              /\ ret[r2].render.called /\ ~ret[r2].render.threw
              /\ ret[r2].set.called /\ ret[r2].set.args.url = targetUrl[r]
              /\ resp[r].status = ret[r2].render.statusCode
              /\ resp[r].body = HtmlBody(ret[r2].render.html)
              /\ ret[r].get.value.timestamp = member(ret[r2].set.data, "timestamp")
       ELSE /\ ret[r].render.called /\ ~ret[r].render.threw
            /\ rstate[r].locals.finalUrl = <<>>
            /\ resp[r].status = ret[r].render.statusCode
            /\ resp[r].body = HtmlBody(ret[r].render.html)

\* C34 happens: a request was answered HIT with the 404 page another request
\* for its URL had rendered.
C34_Witness ==
  \E r1, r2 \in Reqs :
    /\ pc[r1] = "done" /\ pc[r2] = "done" /\ targetUrl[r1] = targetUrl[r2]
    /\ ret[r1].render.statusCode = 404 /\ ret[r1].render.html = "<html>v2</html>"
    /\ ~ret[r2].get.value.isNull /\ resp[r2].status = 404
    /\ resp[r2].body = HtmlBody("<html>v2</html>")

SetEnds(r) ==
  \/ calls[r].set = 0 /\ calls'[r].set = 1 /\ pc'[r] # "set"
  \/ pc[r] = "set" /\ pc'[r] # "set"

\* A request that passed validation has been answered.
AnsweredValid(r) == pc[r] = "done" /\ targetUrl[r] # <<>>

\* The response of request r is marked as a miss.
IsMiss(r) == Has(r, "X-Prerender-Cache") /\ resp[r].headers["X-Prerender-Cache"] = "MISS"

\* What holds of the requests while the cache is disabled: none waits for
\* the store, the store is empty, and an answered valid request made one
\* lookup and one render and is answered by the render's outcome.
WithoutCache ==
  /\ DOMAIN store = {}
  /\ \A r \in Reqs :
       /\ pc[r] \notin {"get", "set"}
       /\ AnsweredValid(r)
          => /\ calls[r].get = 1 /\ calls[r].render = 1
             /\ ~ret[r].set.value
             /\ ret[r].render.threw
                => (resp[r].status = 500 /\ resp[r].body.json /\ calls[r].set = 0)
             /\ ~ret[r].render.threw
                => /\ IsMiss(r) /\ calls[r].set = 1
                   /\ resp[r].status = ret[r].render.statusCode
                   /\ resp[r].body = HtmlBody(ret[r].render.html)

\* C37 as stated: while the cache stays disabled, every valid request is
\* rendered once and answered MISS.
C37_AsStated ==
  ([]~connected)
    => [](\A r \in Reqs : AnsweredValid(r) => (calls[r].render = 1 /\ IsMiss(r)))

\* C37: the step in which cache.set returns answers the request with
\* X-Prerender-Cache: MISS, the rendered status and the rendered html, whether
\* set returned true or false, and a set that returned false left the store
\* as it was; and while the cache stays disabled, no request waits for the
\* store, the store stays empty, and every valid request is rendered exactly
\* once and answered MISS when render() returned a result, 500 only when
\* render() threw.
C37_MissWhateverTheWrite ==
  /\ [][\A r \in Reqs :
          SetEnds(r)
          => /\ pc'[r] = "done" /\ resp'[r].sent
             /\ "X-Prerender-Cache" \in DOMAIN resp'[r].headers
             /\ resp'[r].headers["X-Prerender-Cache"] = "MISS"
             /\ resp'[r].status = ret'[r].render.statusCode
             /\ resp'[r].body = HtmlBody(ret'[r].render.html)
             /\ ~ret'[r].set.value => store' = store]_vars
  /\ ([]~connected) => []WithoutCache

\* C37 happens: one request was answered MISS with its rendered page after a
\* set that returned false without reaching the store, another after a set
\* whose store call failed.
C37_Witness ==
  \E r1, r2 \in Reqs :
    /\ pc[r1] = "done" /\ IsMiss(r1) /\ calls[r1].set = 1 /\ ~ret[r1].set.value
    /\ ret[r1].set.data = <<>> /\ resp[r1].status = 200
    /\ pc[r2] = "done" /\ IsMiss(r2) /\ calls[r2].set = 1 /\ ~ret[r2].set.value
    /\ ret[r2].set.data # <<>> /\ resp[r2].body = HtmlBody(ret[r2].render.html)

\* The positions of a caller whose get, set or clear waits for the store.
AtStore == {"cget", "cset", "cclear"}

\* C38: connected is false until connect() is called; it is false after
\* every 'error' event of the client and after connect() has failed, true
\* after every 'connect' event, and while the service runs no other step
\* changes it; a get, set or clear goes to the store exactly when it is called with connected true
\* (and the client created), and returns at once otherwise, so that a cache
\* an error has disabled is used again after the next 'connect' event.
C38_FlagFollowsEvents ==
  /\ [](phase = "constructed" => ~connected)
  /\ [][/\ (ClientErrorEvent \/ ConnectReject) => ~connected'
        /\ ClientConnectEvent => connected'
        /\ connected' # connected
             => (ClientConnectEvent \/ ClientErrorEvent \/ ConnectReject)
        /\ \A r \in Reqs :
             (pc[r] = "idle" /\ pc'[r] # "idle")
             => /\ pc'[r] \in AtStore <=> (connected /\ client)
                /\ pc'[r] \notin AtStore => (pc'[r] = "cdone" /\ store' = store)]_vars

\* C38 happens: the store holds an entry written while the cache was
\* enabled, a set called while it was disabled has returned false at the
\* guard, and now, the flag being true again, a get waits for the store.
C38_Witness ==
  \E r1, r2 \in Reqs :
    /\ client /\ connected /\ DOMAIN store # {}
    /\ pc[r1] = "cdone" /\ ret[r1].set.called /\ ~ret[r1].set.value
    /\ ret[r1].set.data = <<>>
    /\ pc[r2] = "cget"

\* The failure the stated precedence gives a candidate URL under an
\* allowlist, with text "" when none of the four applies: empty, then not
\* parsed (decoded once, or as it came when the decoding fails), then a
\* scheme other than http and https, then a host outside a configured
\* allowlist.
C39_Failure(domains, url) ==
  LET dec == decodeURIComponent(url)
      u == ParseURL(IF dec.threw THEN url ELSE dec.value)
  IN  IF url = <<>> THEN ErrNoUrl
      ELSE IF ~u.ok THEN ErrFormat
      ELSE IF u.protocol # HTTP \o COLON /\ u.protocol # HTTPS \o COLON THEN ErrProtocol
      ELSE IF /\ domains # <<>>
              /\ \A i \in DOMAIN domains :
                   /\ u.hostname # domains[i]
                   /\ ~endsWith(u.hostname, <<".">> \o domains[i])
           THEN ErrDomain(u.hostname)
      ELSE [text |-> "", arg |-> <<>>]

\* The request slot r takes has been refused with the failure e.
C39_Refused(r, e) ==
  /\ pc'[r] = "done" /\ resp'[r].sent /\ resp'[r].status = 400
  /\ resp'[r].body.error = e
  /\ targetUrl'[r] = <<>>

\* C39: a request is refused with exactly the first failure that applies to
\* its candidate URL -- 'No URL provided', then 'Invalid URL format', then
\* the scheme error, then the domain error -- and passes validation only
\* when none applies; so an ftp URL of a host outside the allowlist is
\* refused for its scheme, and an ftp URL whose host does not parse for its
\* format.
C39_Precedence ==
  [][\A r \in Reqs :
       (pc[r] = "idle" /\ pc'[r] # "idle")
       => /\ IF C39_Failure(allowedDomains, extractUrl(req'[r])).text = ""
             THEN targetUrl'[r] # <<>> /\ pc'[r] # "done"
             ELSE C39_Refused(r, C39_Failure(allowedDomains, extractUrl(req'[r])))
          /\ req'[r] = Request(<<>>, <<>>, SLASH) => C39_Refused(r, ErrNoUrl)
          /\ req'[r] \in {ByQuery(UrlBad), ByHeader(UrlBadHost)} => C39_Refused(r, ErrFormat)
          /\ req'[r] \in {ByQuery(UrlFtpEvil), ByQuery(UrlData), ByQuery(UrlFtp)}
               => C39_Refused(r, ErrProtocol)
          /\ (req'[r] = ByQuery(UrlEvil) /\ allowedDomains # <<>>)
               => C39_Refused(r, ErrDomain(HostEvil))
          /\ (req'[r] = ByQuery(UrlEvil) /\ allowedDomains = <<>>)
               => targetUrl'[r] = UrlEvil]_vars

\* C39 happens: under an allowlist without its host, one ftp URL was refused
\* for its scheme; another ftp URL, whose host does not parse, was refused
\* for its format.
C39_Witness ==
  \E r1, r2 \in Reqs :
    /\ allowedDomains # <<>>
    /\ req[r1] = ByQuery(UrlFtpEvil) /\ pc[r1] = "done" /\ resp[r1].status = 400
    /\ resp[r1].body.error = ErrProtocol
    /\ req[r2] = ByHeader(UrlBadHost) /\ pc[r2] = "done" /\ resp[r2].status = 400
    /\ resp[r2].body.error = ErrFormat

====
